---- MODULE Spec2Model ----
(***************************************************************************)
(* Model of the core of blogger-editor-widget: the HTML exporter           *)
(* (export.js), the URL validator and the escaping helpers (utils.js) and  *)
(* the statistics calculator (stats.js).                                   *)
(*                                                                         *)
(* A JavaScript string is a sequence of one-character strings.  A thrown   *)
(* TypeError is the value TypeError, which no string equals.               *)
(***************************************************************************)
EXTENDS Integers, Sequences, FiniteSets, TLC

VARIABLES pc, json, html, formatted, node, rendered, url, validation, text, stats, lastIndex, calls, answer,
          timeoutId, lastArgs, lastThis, timers, invoked, recent, fate, op,
          attempts, onRetry, attempt, lastError, inFlight, outcomes, retried, waits, settled,
          isOpen, visible, scrollLocked, trapActive, focusTrap, onConfirm, value, linkError,
          activations, opens, confirmed, modalOp,
          listeners, toolbar, editor, clicked, handled, commands

\* the closure of debounce(func, wait), its timers, and the history of its use
debounceVars == <<timeoutId, lastArgs, lastThis, timers, invoked, recent, fate, op>>

\* the call of retry(operation, options): its options, its locals, and the history of the call
retryVars == <<attempts, onRetry, attempt, lastError, inFlight, outcomes, retried, waits, settled>>

\* the fields of LinkModal and what it changes in the page
modalFields == <<isOpen, visible, scrollLocked, trapActive, focusTrap, onConfirm, value, linkError,
                 activations>>

\* LinkModal, the number of its openings, the calls of onConfirm, and its last step
modalVars == <<modalFields, opens, confirmed, modalOp>>

\* ContentEditorApp and the toolbar element: the click listeners attached to the element, the
\* fields toolbar and editor of the app, the last click and what it caused
appVars == <<listeners, toolbar, editor, clicked, handled, commands>>

\* the state of the user interface and of the schedulers
uiVars == <<debounceVars, retryVars, modalVars, appVars>>

\* the state of the exporter, the validator and the statistics, without pc and calls
coreVars == <<json, html, formatted, node, rendered, url, validation, text, stats, lastIndex, answer>>

vars == <<pc, calls, coreVars, uiVars>>

(***************************************************************************)
(* Bounds of the model.                                                    *)
(***************************************************************************)
MaxUrlChunks == 3

MaxDepth == 2

MaxMarks == 4

MaxTextLen == 2

MaxStatsLen == 3

MaxCalls == 2
MaxMoreWords == 1
MaxLevel == 6
MaxQuoteParts == 3

(***************************************************************************)
(* JavaScript string primitives.                                           *)
(***************************************************************************)
TypeError == <<"TypeError">>

RECURSIVE Join(_)
Join(parts) == IF parts = <<>> THEN <<>> ELSE Head(parts) \o Join(Tail(parts))

StartsWith(s, p) == Len(s) >= Len(p) /\ SubSeq(s, 1, Len(p)) = p

Includes(s, p) == \E i \in 1..(Len(s) - Len(p) + 1) : SubSeq(s, i, i + Len(p) - 1) = p

UpperCase == <<"A", "B", "C", "D", "E", "F", "G", "H", "I", "J", "K", "L", "M",
               "N", "O", "P", "Q", "R", "S", "T", "U", "V", "W", "X", "Y", "Z">>

LowerCase == <<"a", "b", "c", "d", "e", "f", "g", "h", "i", "j", "k", "l", "m",
               "n", "o", "p", "q", "r", "s", "t", "u", "v", "w", "x", "y", "z">>

LowerChar(c) == IF \E i \in 1..Len(UpperCase) : UpperCase[i] = c
                THEN LowerCase[CHOOSE i \in 1..Len(UpperCase) : UpperCase[i] = c]
                ELSE c

toLowerCase(s) == [i \in 1..Len(s) |-> LowerChar(s[i])]

WhiteSpace == {" ", "\t", "\n"}

RECURSIVE trimStart(_)
trimStart(s) == IF s # <<>> /\ Head(s) \in WhiteSpace THEN trimStart(Tail(s)) ELSE s

RECURSIVE trimEnd(_)
trimEnd(s) == IF s # <<>> /\ s[Len(s)] \in WhiteSpace THEN trimEnd(SubSeq(s, 1, Len(s) - 1)) ELSE s

trim(s) == trimEnd(trimStart(s))

ReplaceAll(s, c, r) == Join([i \in 1..Len(s) |-> IF s[i] = c THEN r ELSE <<s[i]>>])

(***************************************************************************)
(* utils.js: escaping.                                                     *)
(***************************************************************************)
AMP == <<"&", "a", "m", "p", ";">>

LT == <<"&", "l", "t", ";">>

GT == <<"&", "g", "t", ";">>

QUOT == <<"&", "q", "u", "o", "t", ";">>

APOS == <<"&", "#", "3", "9", ";">>

HTML_ENTITY_MAP(c) == CASE c = "&" -> AMP
                        [] c = "<" -> LT
                        [] c = ">" -> GT
                        [] c = "\"" -> QUOT
                        [] c = "'" -> APOS
                        [] OTHER -> <<c>>

escapeHTML(str) == Join([i \in 1..Len(str) |-> HTML_ENTITY_MAP(str[i])])

\* the escape of the element body in the place of the escape of attributes
escapeAttribute_body(str) == ReplaceAll(ReplaceAll(ReplaceAll(str, "&", AMP), "<", LT), ">", GT)

escapeAttribute(str) ==
    ReplaceAll(ReplaceAll(ReplaceAll(ReplaceAll(ReplaceAll(str, "&", AMP), "\"", QUOT), "'", APOS), "<", LT), ">", GT)

(***************************************************************************)
(* The URL constructor of the platform (WHATWG basic URL parser, no base   *)
(* URL), as far as the characters of the model reach: letters, ':', '/',   *)
(* '.', space, tab, quotes and angle brackets.  Digits, '?', '#', '@',     *)
(* '\', '%', '[' and the file: scheme do not occur in the inputs.          *)
(* ParseURL gives [ok, protocol, href]; ok = FALSE is the thrown           *)
(* TypeError of `new URL(...)`.                                            *)
(***************************************************************************)
IsAlpha(c) == \E i \in 1..Len(LowerCase) : c = LowerCase[i] \/ c = UpperCase[i]

IsSchemeChar(c) == IsAlpha(c) \/ c \in {"+", "-", "."}

RemoveTabNewline(s) == ReplaceAll(ReplaceAll(s, "\t", <<>>), "\n", <<>>)

RECURSIVE ScanScheme(_, _)
ScanScheme(s, i) == IF i > Len(s) THEN 0
                    ELSE IF s[i] = ":" THEN i
                    ELSE IF IsSchemeChar(s[i]) THEN ScanScheme(s, i + 1)
                    ELSE 0

SchemeEnd(s) == IF s # <<>> /\ IsAlpha(s[1]) THEN ScanScheme(s, 2) ELSE 0

SpecialSchemes == {<<"h", "t", "t", "p">>, <<"h", "t", "t", "p", "s">>, <<"f", "t", "p">>,
                   <<"w", "s">>, <<"w", "s", "s">>}

RECURSIVE SkipSlashes(_)
SkipSlashes(s) == IF s # <<>> /\ Head(s) = "/" THEN SkipSlashes(Tail(s)) ELSE s

IndexOf(s, c) == IF \E i \in 1..Len(s) : s[i] = c
                 THEN CHOOSE i \in 1..Len(s) : s[i] = c /\ \A j \in 1..(i - 1) : s[j] # c
                 ELSE 0

ForbiddenHostChars == {" ", "<", ">", ":", "/"}

PathEncode(c) == CASE c = " " -> <<"%", "2", "0">>
                   [] c = "\"" -> <<"%", "2", "2">>
                   [] c = "<" -> <<"%", "3", "C">>
                   [] c = ">" -> <<"%", "3", "E">>
                   [] OTHER -> <<c>>

EncodePath(s) == Join([i \in 1..Len(s) |-> PathEncode(s[i])])

ParseFailure == [ok |-> FALSE, protocol |-> <<>>, href |-> <<>>]

\* authority state: the authority ends at the first '/'
AuthorityOf(s) == IF IndexOf(s, "/") = 0 THEN s ELSE SubSeq(s, 1, IndexOf(s, "/") - 1)

PathOf(s) == IF IndexOf(s, "/") = 0 THEN <<>> ELSE SubSeq(s, IndexOf(s, "/"), Len(s))

\* host state: the host ends at the first ':', the port follows it
HostOf(authority) ==
    IF IndexOf(authority, ":") = 0 THEN authority ELSE SubSeq(authority, 1, IndexOf(authority, ":") - 1)

PortOf(authority) ==
    IF IndexOf(authority, ":") = 0 THEN <<>> ELSE SubSeq(authority, IndexOf(authority, ":") + 1, Len(authority))

\* host parsing, port state (a port that is not made of digits is a failure) and serialisation
ParseHost(scheme, special, host, port, path) ==
    IF special /\ host = <<>> THEN ParseFailure
    ELSE IF \E i \in 1..Len(host) : host[i] \in ForbiddenHostChars THEN ParseFailure
    ELSE IF port # <<>> THEN ParseFailure
    ELSE [ok |-> TRUE,
          protocol |-> scheme \o <<":">>,
          href |-> scheme \o <<":", "/", "/">> \o (IF special THEN toLowerCase(host) ELSE host)
                   \o (IF special /\ path = <<>> THEN <<"/">> ELSE EncodePath(path))]

\* s is what follows the slashes of the authority; special = the scheme is special
ParseAuthority(scheme, s, special) ==
    ParseHost(scheme, special, HostOf(AuthorityOf(s)), PortOf(AuthorityOf(s)), PathOf(s))

\* what follows "scheme:": authority, path or opaque path
ParseAfterScheme(scheme, rest) ==
    IF scheme \in SpecialSchemes THEN ParseAuthority(scheme, SkipSlashes(rest), TRUE)
    ELSE IF StartsWith(rest, <<"/", "/">>) THEN ParseAuthority(scheme, SubSeq(rest, 3, Len(rest)), FALSE)
    ELSE IF StartsWith(rest, <<"/">>)
         THEN [ok |-> TRUE, protocol |-> scheme \o <<":">>, href |-> scheme \o <<":">> \o EncodePath(rest)]
    ELSE [ok |-> TRUE, protocol |-> scheme \o <<":">>, href |-> scheme \o <<":">> \o rest]

\* without a scheme and without a base URL the parse fails
ParseScheme(s) ==
    IF SchemeEnd(s) = 0 THEN ParseFailure
    ELSE ParseAfterScheme(toLowerCase(SubSeq(s, 1, SchemeEnd(s) - 1)), SubSeq(s, SchemeEnd(s) + 1, Len(s)))

ParseURL(input) == ParseScheme(RemoveTabNewline(input))

(***************************************************************************)
(* utils.js: validateURL.  The argument is a JavaScript value              *)
(* [is, str]: is = "string" with the string str, or another type.          *)
(***************************************************************************)
JsString(s) == [is |-> "string", str |-> s]

JsNumber == [is |-> "number", str |-> <<>>]

JsUndefined == [is |-> "undefined", str |-> <<>>]

Truthy(v) == \/ v.is = "string" /\ v.str # <<>>
             \/ v.is = "number"

JAVASCRIPT == <<"j", "a", "v", "a", "s", "c", "r", "i", "p", "t", ":">>

DATA == <<"d", "a", "t", "a", ":">>

VBSCRIPT == <<"v", "b", "s", "c", "r", "i", "p", "t", ":">>

HTTP == <<"h", "t", "t", "p", ":">>

HTTPS == <<"h", "t", "t", "p", "s", ":">>

MAILTO == <<"m", "a", "i", "l", "t", "o", ":">>

\* an allow list that lets ftp: through
AllowedProtocols_ftp == {HTTP, HTTPS, MAILTO, <<"f", "t", "p", ":">>}

AllowedProtocols == {HTTP, HTTPS, MAILTO}

\* the block list left out
IsBlocked_never(lower) == FALSE

IsBlocked(lower) == StartsWith(lower, JAVASCRIPT) \/ StartsWith(lower, DATA) \/ StartsWith(lower, VBSCRIPT)

Invalid(msg) == [valid |-> FALSE, url |-> <<>>, error |-> msg]

Valid(href) == [valid |-> TRUE, url |-> href, error |-> ""]

\* the call ended by an exception instead of a result
Uncaught == [valid |-> FALSE, url |-> <<>>, error |-> "uncaught TypeError"]

\* the inner new URL without its try
ValidateReparsed_uncaught(reparsed) ==
    IF reparsed.ok THEN Valid(reparsed.href) ELSE Uncaught

\* the inner try: new URL('https://' + trimmed)
ValidateReparsed(reparsed) ==
    IF reparsed.ok THEN Valid(reparsed.href) ELSE Invalid("Invalid URL format")

\* a retry whatever the input holds
ShouldRetry_always(trimmed) == TRUE

\* !trimmed.includes('://') && !trimmed.startsWith('mailto:')
ShouldRetry(trimmed) == ~Includes(trimmed, <<":", "/", "/">>) /\ ~StartsWith(trimmed, MAILTO)

\* the outer try and its catch
ValidateParsed(trimmed, parsed) ==
    IF parsed.ok
    THEN IF parsed.protocol \notin AllowedProtocols
         THEN Invalid("Only HTTP, HTTPS, and mailto links are allowed")
         ELSE Valid(parsed.href)
    ELSE IF ShouldRetry(trimmed)
         THEN ValidateReparsed(ParseURL(HTTPS \o <<"/", "/">> \o trimmed))
         ELSE Invalid("Invalid URL format")

ValidateTrimmed(trimmed) ==
    IF IsBlocked(toLowerCase(trimmed)) THEN Invalid("Invalid URL protocol")
    ELSE ValidateParsed(trimmed, ParseURL(trimmed))

validateURL(u) ==
    IF ~Truthy(u) \/ u.is # "string" THEN Invalid("URL is required")
    ELSE ValidateTrimmed(trim(u.str))

(***************************************************************************)
(* The document model of the editing framework, as JavaScript values.      *)
(* A node is [is, type, attrs, content, text, marks]: is = "null" is the   *)
(* value null, is = "number" a number in the place of a node; type = ""    *)
(* is a missing type.  Each field carries its own JavaScript type in its   *)
(* is component.                                                           *)
(***************************************************************************)
NoAttrs == [is |-> "undefined", level |-> [is |-> "undefined", num |-> 0]]

NoContent == [is |-> "undefined", items |-> <<>>]

NoText == [is |-> "undefined", str |-> <<>>]

NoMarks == [is |-> "undefined", items |-> <<>>]

NullNode == [is |-> "null", type |-> "", attrs |-> NoAttrs, content |-> NoContent,
             text |-> NoText, marks |-> NoMarks]

NumberNode == [NullNode EXCEPT !.is = "number"]

Container(type, attrs, items) ==
    [is |-> "object", type |-> type, attrs |-> attrs,
     content |-> [is |-> "array", items |-> items], text |-> NoText, marks |-> NoMarks]

TextNode(str, marks) ==
    [is |-> "object", type |-> "text", attrs |-> NoAttrs, content |-> NoContent,
     text |-> JsString(str), marks |-> marks]

Marks(items) == [is |-> "array", items |-> items]

Mark(type) == [is |-> "object", type |-> type, attrs |-> [is |-> "undefined", href |-> JsUndefined]]

Link(href) == [is |-> "object", type |-> "link", attrs |-> [is |-> "object", href |-> href]]

NullMark == [is |-> "null", type |-> "", attrs |-> [is |-> "undefined", href |-> JsUndefined]]

Level(n) == [is |-> "object", level |-> [is |-> "number", num |-> n]]

(***************************************************************************)
(* export.js: processText.                                                 *)
(***************************************************************************)
order == <<"link", "bold", "italic", "code">>

\* order.indexOf(type), zero-based, -1 when absent
indexOf(type) == IF \E i \in 1..Len(order) : order[i] = type
                 THEN (CHOOSE i \in 1..Len(order) : order[i] = type) - 1
                 ELSE -1

\* insert m behind every element that does not compare greater: a stable sort
RECURSIVE Insert(_, _)
Insert(sorted, m) ==
    IF sorted = <<>> THEN <<m>>
    ELSE IF indexOf(sorted[Len(sorted)].type) - indexOf(m.type) > 0
         THEN Insert(SubSeq(sorted, 1, Len(sorted) - 1), m) \o <<sorted[Len(sorted)]>>
         ELSE sorted \o <<m>>

\* the marks taken in the order of the input
SortMarks_unsorted(marks) == marks

RECURSIVE SortMarks(_)
SortMarks(marks) ==
    IF marks = <<>> THEN <<>>
    ELSE Insert(SortMarks(SubSeq(marks, 1, Len(marks) - 1)), marks[Len(marks)])

Href(mark) == IF mark.attrs.is = "object" /\ Truthy(mark.attrs.href) THEN mark.attrs.href ELSE JsString(<<>>)

A_OPEN == <<"<", "a", " ", "h", "r", "e", "f", "=", "\"">>

LinkOpen(v) == IF v.valid THEN A_OPEN \o escapeAttribute(v.url) \o <<"\"", ">">> ELSE <<>>

LinkClose(v) == IF v.valid THEN <<"<", "/", "a", ">">> ELSE <<>>

\* the anchor written without asking validateURL
OpenTag_unchecked(mark) ==
    CASE mark.type = "bold" -> <<"<", "s", "t", "r", "o", "n", "g", ">">>
      [] mark.type = "italic" -> <<"<", "e", "m", ">">>
      [] mark.type = "code" -> <<"<", "c", "o", "d", "e", ">">>
      [] mark.type = "link" -> A_OPEN \o escapeAttribute(Href(mark).str) \o <<"\"", ">">>
      [] OTHER -> <<>>

OpenTag(mark) ==
    CASE mark.type = "bold" -> <<"<", "s", "t", "r", "o", "n", "g", ">">>
      [] mark.type = "italic" -> <<"<", "e", "m", ">">>
      [] mark.type = "code" -> <<"<", "c", "o", "d", "e", ">">>
      [] mark.type = "link" -> LinkOpen(validateURL(Href(mark)))
      [] OTHER -> <<>>

CloseTag(mark) ==
    CASE mark.type = "bold" -> <<"<", "/", "s", "t", "r", "o", "n", "g", ">">>
      [] mark.type = "italic" -> <<"<", "/", "e", "m", ">">>
      [] mark.type = "code" -> <<"<", "/", "c", "o", "d", "e", ">">>
      [] mark.type = "link" -> LinkClose(validateURL(Href(mark)))
      [] OTHER -> <<>>

\* open.join('') + text + close.join(''): each mark pushes to open and unshifts to close
Compose(sorted, escaped) ==
    Join([i \in 1..Len(sorted) |-> OpenTag(sorted[i])])
    \o escaped
    \o Join([i \in 1..Len(sorted) |-> CloseTag(sorted[Len(sorted) + 1 - i])])

processText(n) ==
    IF n.is # "object" \/ n.type # "text" \/ n.text.is # "string" THEN <<>>
    ELSE IF n.marks.is # "array" \/ n.marks.items = <<>> THEN escapeHTML(n.text.str)
    ELSE IF \E i \in 1..Len(n.marks.items) : n.marks.items[i].is = "null" THEN TypeError
    ELSE Compose(SortMarks(n.marks.items), escapeHTML(n.text.str))

(***************************************************************************)
(* export.js: the block handlers.  A handler gives TypeError when the      *)
(* JavaScript code throws; the exception of a callee passes through every  *)
(* caller, none of them catches.                                           *)
(***************************************************************************)
Threw(parts) == \E i \in 1..Len(parts) : parts[i] = TypeError

\* parts.filter(Boolean)
RECURSIVE FilterBoolean(_)
FilterBoolean(parts) ==
    IF parts = <<>> THEN <<>>
    ELSE (IF Head(parts) = <<>> THEN <<>> ELSE <<Head(parts)>>) \o FilterBoolean(Tail(parts))

\* parts.join(sep)
RECURSIVE JoinWith(_, _)
JoinWith(parts, sep) ==
    IF parts = <<>> THEN <<>>
    ELSE IF Len(parts) = 1 THEN parts[1]
    ELSE parts[1] \o sep \o JoinWith(Tail(parts), sep)

\* the string of the results of a loop, or the exception one of them threw
Joined(parts) == IF Threw(parts) THEN TypeError ELSE Join(parts)

processInline(content) ==
    IF content.is # "array" THEN <<>>
    ELSE Joined([i \in 1..Len(content.items) |-> processText(content.items[i])])

Wrap(tag, content) == <<"<">> \o tag \o <<">">> \o content \o <<"<", "/">> \o tag \o <<">">>

\* <tag>content</tag>, or nothing when the content is empty or white space only
WrapUnlessBlank(tag, content) ==
    IF content = TypeError THEN TypeError
    ELSE IF content = <<>> \/ trim(content) = <<>> THEN <<>>
    ELSE Wrap(tag, content)

processParagraph(n) == WrapUnlessBlank(<<"p">>, processInline(n.content))

\* (node.attrs && typeof node.attrs.level === 'number') ? node.attrs.level : 2
HeadingLevel(n) == IF n.attrs.is = "object" /\ n.attrs.level.is = "number" THEN n.attrs.level.num ELSE 2

\* h3 for every level from 3 on
HeadingTag_from3(level) == IF level >= 3 THEN <<"h", "3">> ELSE <<"h", "2">>

\* level === 3 ? 'h3' : 'h2'
HeadingTag(level) == IF level = 3 THEN <<"h", "3">> ELSE <<"h", "2">>

processHeading(n) == WrapUnlessBlank(HeadingTag(HeadingLevel(n)), processInline(n.content))

\* The handlers processNode, processBulletList, processListItem and processBlockquote call one
\* another: process(handler, n) is the call handler(n).

\* the handler that the switch of processNode passes a node on to
Dispatch(n) == CASE n.is # "object" \/ n.type = "" -> "return"
                 [] n.type = "paragraph" -> "processParagraph"
                 [] n.type = "heading" -> "processHeading"
                 [] n.type = "bulletList" -> "processBulletList"
                 [] n.type = "listItem" -> "processListItem"
                 [] n.type = "blockquote" -> "processBlockquote"
                 [] n.type = "text" -> "processText"
                 [] OTHER -> "default"

\* the handler that the loop of handler h calls for a child that is not null
ChildHandler(h, child) ==
    CASE h \in {"processListItem", "processBlockquote"} /\ child.is = "object" /\ child.type = "paragraph"
            -> "processInline"
      [] h = "processListItem" /\ child.is = "object" /\ child.type = "bulletList"
            -> "processBulletList"
      [] OTHER -> "processNode"

\* a newline instead of the line-break marker
BR_newline == <<"\n">>

\* the separator of parts.join('<br>')
BR == <<"<", "b", "r", ">">>

\* what handler h makes of the results of its loop: mapped holds one result per child
Assemble(h, n, mapped, parts) ==
    CASE h = "processBulletList" ->
            IF n.content.is # "array" \/ n.content.items = <<>> THEN <<>>
            ELSE IF Threw(mapped) THEN TypeError
            ELSE IF parts = <<>> THEN <<>>
            ELSE <<"<", "u", "l", ">", "\n">> \o JoinWith(parts, <<"\n">>) \o <<"\n", "<", "/", "u", "l", ">">>
      [] h = "processListItem" ->
            IF n.content.is # "array" THEN <<>>
            ELSE IF Threw(mapped) THEN TypeError
            ELSE IF parts = <<>> THEN <<>>
            ELSE Wrap(<<"l", "i">>, Join(parts))
      [] h = "processBlockquote" ->
            IF n.content.is # "array" THEN <<>>
            ELSE IF Threw(mapped) THEN TypeError
            ELSE IF parts = <<>> THEN <<>>
            ELSE Wrap(<<"b", "l", "o", "c", "k", "q", "u", "o", "t", "e">>, JoinWith(parts, BR))
      [] OTHER ->
            IF n.content.is # "array" THEN <<>>
            ELSE IF Threw(mapped) THEN TypeError
            ELSE Join(parts)

RECURSIVE process(_, _)

\* the loop of handler h over the children of n
MapChildren(h, n) ==
    [i \in 1..Len(n.content.items) |->
        IF h \in {"processListItem", "processBlockquote"} /\ n.content.items[i].is = "null"
        THEN TypeError
        ELSE process(ChildHandler(h, n.content.items[i]), n.content.items[i])]

Handle(h, n) ==
    CASE h = "return" -> <<>>
      [] h = "processParagraph" -> processParagraph(n)
      [] h = "processHeading" -> processHeading(n)
      [] h = "processText" -> processText(n)
      [] h = "processInline" -> processInline(n.content)
      [] OTHER -> Assemble(h, n, MapChildren(h, n), FilterBoolean(MapChildren(h, n)))

process(handler, n) == Handle(IF handler = "processNode" THEN Dispatch(n) ELSE handler, n)

processNode(n) == process("processNode", n)

processBulletList(n) == process("processBulletList", n)

processListItem(n) == process("processListItem", n)

processBlockquote(n) == process("processBlockquote", n)

\* every result pushed, the empty ones too
JoinLines_unfiltered(mapped) == IF Threw(mapped) THEN TypeError ELSE JoinWith(mapped, <<"\n">>)

\* the loop of generateCleanHTML and parts.join('\n')
JoinLines(mapped) == IF Threw(mapped) THEN TypeError ELSE JoinWith(FilterBoolean(mapped), <<"\n">>)

generateCleanHTML(doc) ==
    IF doc.is # "object" \/ doc.content.is # "array" THEN <<>>
    ELSE JoinLines([i \in 1..Len(doc.content.items) |-> processNode(doc.content.items[i])])

(***************************************************************************)
(* export.js: formatHTMLForDisplay.  A replacement that inserts text is    *)
(* written with a slot for the inserted text at every place of the string; *)
(* the empty slots, "", are dropped afterwards.                            *)
(***************************************************************************)
EndsAt(h, i, piece) == i >= Len(piece) /\ i <= Len(h) /\ SubSeq(h, i - Len(piece) + 1, i) = piece

DropEmpty(slots) == SelectSeq(slots, LAMBDA c : c # "")

\* (<\/(?:p|h2|h3|ul|li|blockquote)>)
ClosingTags == {<<"<", "/", "p", ">">>, <<"<", "/", "h", "2", ">">>, <<"<", "/", "h", "3", ">">>,
                <<"<", "/", "u", "l", ">">>, <<"<", "/", "l", "i", ">">>,
                <<"<", "/", "b", "l", "o", "c", "k", "q", "u", "o", "t", "e", ">">>}

\* h.replace(/(tag)/g, '$1\n') for the tags of the set
NewlineAfter(h, tags) ==
    DropEmpty([k \in 1..(2 * Len(h)) |->
                  IF k % 2 = 1 THEN h[(k + 1) \div 2]
                  ELSE IF \E t \in tags : EndsAt(h, k \div 2, t) THEN "\n"
                  ELSE ""])

\* h.replace(/(<li>)/g, '  $1')
IndentItems(h) ==
    DropEmpty([k \in 1..(3 * Len(h)) |->
                  IF k % 3 = 0 THEN h[k \div 3]
                  ELSE IF EndsAt(h, (k + 2) \div 3 + 3, <<"<", "l", "i", ">">>) THEN " "
                  ELSE ""])

\* h.replace(/\n{3,}/g, '\n\n'): of a run of newlines the first two stay
CollapseNewlines(h) ==
    DropEmpty([i \in 1..Len(h) |->
                  IF i > 2 /\ h[i] = "\n" /\ h[i - 1] = "\n" /\ h[i - 2] = "\n" THEN "" ELSE h[i]])

formatHTMLForDisplay(h) ==
    IF h = <<>> \/ trim(h) = <<>> THEN <<>>
    ELSE trim(CollapseNewlines(IndentItems(NewlineAfter(NewlineAfter(h, ClosingTags),
                                                        {<<"<", "u", "l", ">">>}))))

(***************************************************************************)
(* stats.js and the text helpers of utils.js.  The text of the statistics  *)
(* is a sequence of UTF-16 code units (numbers), so that the character     *)
(* ranges of the regular expressions are the ranges of the source.         *)
(* REGEX.cjk has the global flag: test() reads and writes its lastIndex,   *)
(* which is the variable lastIndex.                                        *)
(***************************************************************************)
\* \s of a regular expression and the white space of trim(): TAB, LF, VT, FF, CR, SP, NBSP,
\* U+1680, U+2000 to U+200A, LS, PS, U+202F, U+205F, U+3000 and U+FEFF
IsSpace(c) == \/ c \in {9, 10, 11, 12, 13, 32, 160, 5760, 8232, 8233, 8239, 8287, 12288, 65279}
              \/ (8192 <= c /\ c <= 8202)

\* REGEX.zeroWidth: U+200B to U+200D and U+FEFF
IsZeroWidth(c) == (8203 <= c /\ c <= 8205) \/ c = 65279

\* REGEX.cjk: 4E00-9FFF, 3400-4DBF, 3040-309F, 30A0-30FF, AC00-D7AF
IsCJK(c) == \/ 19968 <= c /\ c <= 40959
            \/ 13312 <= c /\ c <= 19903
            \/ 12352 <= c /\ c <= 12447
            \/ 12448 <= c /\ c <= 12543
            \/ 44032 <= c /\ c <= 55215

\* the text with its zero-width characters left in
normalizeText_keep(s) == s

normalizeText(s) == SelectSeq(s, LAMBDA c : ~IsZeroWidth(c))

\* every run of white space collapsed to its first character instead of removed
stripWhitespace_collapse(s) ==
    SelectSeq([i \in 1..Len(s) |-> IF IsSpace(s[i]) /\ i > 1 /\ IsSpace(s[i - 1]) THEN 0 ELSE s[i]],
              LAMBDA c : c # 0)

\* s.replace(/\s/g, '')
stripWhitespace(s) == SelectSeq(s, LAMBDA c : ~IsSpace(c))

RECURSIVE trimStartText(_)
trimStartText(s) == IF s # <<>> /\ IsSpace(Head(s)) THEN trimStartText(Tail(s)) ELSE s

RECURSIVE trimEndText(_)
trimEndText(s) == IF s # <<>> /\ IsSpace(s[Len(s)]) THEN trimEndText(SubSeq(s, 1, Len(s) - 1)) ELSE s

trimText(s) == trimEndText(trimStartText(s))

\* REGEX.cjk.test(s) with lastIndex = li: the zero-based index of the first match at or after li, or -1
FirstMatch(s, li) ==
    IF \E i \in (li + 1)..Len(s) : IsCJK(s[i])
    THEN (CHOOSE i \in (li + 1)..Len(s) : IsCJK(s[i]) /\ \A j \in (li + 1)..(i - 1) : ~IsCJK(s[j])) - 1
    ELSE -1

containsCJK(s, li) ==
    IF FirstMatch(s, li) >= 0
    THEN [result |-> TRUE, lastIndex |-> FirstMatch(s, li) + 1]
    ELSE [result |-> FALSE, lastIndex |-> 0]

\* a count that leaves lastIndex where test() put it
countCJK_keep(s, li) == [result |-> Len(SelectSeq(s, IsCJK)), lastIndex |-> li]

\* s.match(REGEX.cjk): a global match starts at index 0 and leaves lastIndex = 0
countCJK(s, li) == [result |-> Len(SelectSeq(s, IsCJK)), lastIndex |-> 0]

\* the index of the last white space before index i, or 0
LastSpaceBefore(s, i) ==
    IF \E j \in 1..(i - 1) : IsSpace(s[j])
    THEN CHOOSE j \in 1..(i - 1) : IsSpace(s[j]) /\ \A k \in (j + 1)..(i - 1) : ~IsSpace(s[k])
    ELSE 0

\* a piece ends where a run of white space begins and where the text ends
PieceEndsBefore(s, i) == i = Len(s) + 1 \/ (IsSpace(s[i]) /\ (i = 1 \/ ~IsSpace(s[i - 1])))

\* the text before index i, back to the white space before it, where a piece ends before i
PieceBefore(s, i) ==
    IF PieceEndsBefore(s, i)
    THEN [end |-> TRUE, piece |-> SubSeq(s, LastSpaceBefore(s, i) + 1, i - 1)]
    ELSE [end |-> FALSE, piece |-> <<>>]

PiecesOf(ends) == [k \in 1..Len(ends) |-> ends[k].piece]

\* s.split(/\s+/): the pieces between the maximal runs of white space, empty ones included
split(s) == PiecesOf(SelectSeq([i \in 1..(Len(s) + 1) |-> PieceBefore(s, i)], LAMBDA p : p.end))

\* the empty pieces counted too
CountNonEmpty_all(pieces) == Len(pieces)

\* pieces.filter(w => w.length > 0).length
CountNonEmpty(pieces) == Len(SelectSeq(pieces, LAMBDA w : Len(w) > 0))

WORDS_PER_MINUTE == 200

\* the CJK characters counted and the Western words forgotten
calculateWordCount_cjkOnly(s, li) ==
    IF s = <<>> THEN [result |-> 0, lastIndex |-> li]
    ELSE IF containsCJK(s, li).result
    THEN countCJK(s, containsCJK(s, li).lastIndex)
    ELSE [result |-> CountNonEmpty(split(s)), lastIndex |-> containsCJK(s, li).lastIndex]

calculateWordCount(s, li) ==
    IF s = <<>> THEN [result |-> 0, lastIndex |-> li]
    ELSE IF containsCJK(s, li).result
    THEN LET cjkCount == countCJK(s, containsCJK(s, li).lastIndex)
             westernText == [i \in 1..Len(s) |-> IF IsCJK(s[i]) THEN 32 ELSE s[i]]
         IN  [result |-> cjkCount.result + CountNonEmpty(split(westernText)),
              lastIndex |-> cjkCount.lastIndex]
    ELSE [result |-> CountNonEmpty(split(s)), lastIndex |-> containsCJK(s, li).lastIndex]

ZeroStats == [words |-> 0, characters |-> 0, readingTimeMinutes |-> 0]

\* the quotient rounded down
Ceil_floor(words) == words \div WORDS_PER_MINUTE

\* Math.ceil(words / WORDS_PER_MINUTE)
Ceil(words) == (words + WORDS_PER_MINUTE - 1) \div WORDS_PER_MINUTE

\* the result of calculateStats(t) and the lastIndex it leaves, for the lastIndex li it finds
calculateStats(t, li) ==
    IF ~Truthy(t) \/ t.is # "string" THEN [result |-> ZeroStats, lastIndex |-> li]
    ELSE LET trimmed == trimText(normalizeText(t.str))
             words == calculateWordCount(trimmed, li)
         IN  IF trimmed = <<>> THEN [result |-> ZeroStats, lastIndex |-> li]
             ELSE [result |-> [words |-> words.result,
                               characters |-> Len(stripWhitespace(trimmed)),
                               readingTimeMinutes |-> Ceil(words.result)],
                   lastIndex |-> words.lastIndex]

(***************************************************************************)
(* Inputs of validateURL: every concatenation of at most MaxUrlChunks      *)
(* pieces, the example of the documentation, and values that are not       *)
(* strings.                                                                *)
(***************************************************************************)
UrlChunks == {JAVASCRIPT,
              <<"J", "a", "v", "a", "S", "c", "r", "i", "p", "t", ":">>,
              DATA,
              VBSCRIPT,
              <<"h", "t", "t", "p", ":", "/", "/">>,
              <<"H", "T", "T", "P", ":">>,
              MAILTO,
              <<"f", "t", "p", ":", "/", "/">>,
              <<"/">>, <<":">>, <<"a">>, <<" ">>, <<"\t">>, <<"\"">>, <<"'">>}

SeqsUpTo(S, n) == UNION {[1..k -> S] : k \in 0..n}

EXAMPLE_COM == <<"e", "x", "a", "m", "p", "l", "e", ".", "c", "o", "m">>

\* "javascript:<tab>//a b": fails to parse, has no "://", parses behind "https://"
JAVASCRIPT_TAB == JAVASCRIPT \o <<"\t", "/", "/", "a", " ", "b">>

UrlStrings == {Join(cs) : cs \in SeqsUpTo(UrlChunks, MaxUrlChunks)} \cup {EXAMPLE_COM, JAVASCRIPT_TAB}

UrlInputs == {JsString(s) : s \in UrlStrings} \cup {JsNumber, JsUndefined}

NoValidation == [valid |-> FALSE, url |-> <<>>, error |-> ""]

(***************************************************************************)
(* Inputs of processText: a text with the marks bold, italic, code, an     *)
(* unknown mark, a null entry and at most one link, in every order, and    *)
(* every text of at most MaxTextLen characters with a few mark lists.      *)
(***************************************************************************)
HTTP_A == <<"h", "t", "t", "p", ":", "/", "/", "a">>

MAILTO_Q == <<"m", "a", "i", "l", "t", "o", ":", "a", "\"", "'", "<">>

JAVASCRIPT_A == JAVASCRIPT \o <<"a">>

FTP_A == <<"f", "t", "p", ":", "/", "/", "a">>

ValidLinks == {Link(JsString(HTTP_A)), Link(JsString(MAILTO_Q)), Link(JsString(<<"a", "'">>))}

InvalidLinks == {Mark("link"),
                 Link(JsUndefined),
                 Link(JsString(<<>>)),
                 Link(JsNumber),
                 Link(JsString(JAVASCRIPT_A)),
                 Link(JsString(FTP_A))}

PlainMarks == {Mark("bold"), Mark("italic"), Mark("code"), Mark("underline"), NullMark}

Injective(f) == \A i, j \in DOMAIN f : f[i] = f[j] => i = j

MarkLists(pool) == {ms \in SeqsUpTo(pool, MaxMarks) : Injective(ms)}

AllMarkLists == MarkLists(PlainMarks)
                \cup UNION {MarkLists(PlainMarks \cup {l}) : l \in ValidLinks \cup InvalidLinks}

TextChars == {"a", " ", "<", ">", "&", "\"", "'"}

Texts == SeqsUpTo(TextChars, MaxTextLen)

RICH == <<"<", "&", ">", "\"", "'">>

RichMarks == Marks(<<Mark("code"), Link(JsString(MAILTO_Q)), Mark("italic"), Mark("bold")>>)

TextNodes == {TextNode(<<"a">>, Marks(ms)) : ms \in AllMarkLists}
             \cup {TextNode(t, m) : t \in Texts, m \in {NoMarks, Marks(<<>>), RichMarks}}
             \cup {NullNode, NumberNode,
                   [TextNode(<<>>, NoMarks) EXCEPT !.text = JsNumber],
                   [TextNode(<<>>, NoMarks) EXCEPT !.text = JsUndefined],
                   [TextNode(<<"a">>, NoMarks) EXCEPT !.type = "paragraph"]}

(***************************************************************************)
(* Inputs of generateCleanHTML: the trees of at most MaxDepth levels of    *)
(* containers over a few leaves.  A container of leaves has no child, one  *)
(* child, or one child next to the plain text "a", or a content that is    *)
(* not an array; a container of containers has one child, alone or before  *)
(* the plain text "a".  A document has no block, one block, one block     *)
(* before or after the plain text "a", or a leaf or a container of leaves  *)
(* between two of them.                                                    *)
(***************************************************************************)
Sibling == TextNode(<<"a">>, NoMarks)

\* a text of two lines with two empty lines between them
LINES == <<"a", "\n", "\n", "\n", "a">>

Leaves == {Sibling,
           TextNode(<<" ">>, NoMarks),
           TextNode(LINES, NoMarks),
           TextNode(RICH, RichMarks),
           TextNode(<<"a">>, Marks(<<NullMark>>)),
           [TextNode(<<>>, NoMarks) EXCEPT !.text = JsNumber],
           NullNode,
           NumberNode}

\* the content lists made of child c: none, c alone, c before or after the plain text "a"
Shape(c, k) == CASE k = 0 -> <<>>
                 [] k = 1 -> <<c>>
                 [] k = 2 -> <<c, Sibling>>
                 [] OTHER -> <<Sibling, c>>

ContentLists(children) == {Shape(c, k) : c \in children, k \in 0..3}

Wrappings(children) == {Shape(c, k) : c \in children, k \in 1..2}

ContainerKinds == {<<"paragraph", NoAttrs>>, <<"heading", NoAttrs>>, <<"heading", Level(3)>>,
                   <<"bulletList", NoAttrs>>, <<"listItem", NoAttrs>>, <<"blockquote", NoAttrs>>,
                   <<"section", NoAttrs>>}

Containers(lists) == {Container(k[1], k[2], items) : k \in ContainerKinds, items \in lists}

Contentless == {[Container(k[1], k[2], <<>>) EXCEPT !.content = c] :
                   k \in ContainerKinds, c \in {NoContent, [is |-> "string", items |-> <<>>]}}

RECURSIVE Nodes(_)
Nodes(depth) ==
    IF depth = 0 THEN Leaves
    ELSE IF depth = 1 THEN Leaves \cup Contentless \cup Containers(ContentLists(Leaves))
    ELSE LET below == Nodes(depth - 1) IN below \cup Containers(Wrappings(below))

Documents == {Container("doc", NoAttrs, items) : items \in ContentLists(Nodes(MaxDepth))}
             \cup {Container("doc", NoAttrs, <<Sibling, c, Sibling>>) : c \in Nodes(1)}
             \cup {NullNode,
                   [Container("doc", NoAttrs, <<>>) EXCEPT !.content = NoContent],
                   [Container("doc", NoAttrs, <<>>) EXCEPT !.content = [is |-> "string", items |-> <<>>]]}

(***************************************************************************)
(* Inputs of calculateStats: every text of at most MaxStatsLen code units  *)
(* among a Latin letter, a space, a Han character, the first Hangul        *)
(* syllable and a zero-width space; the example of the documentation       *)
(* ("hello", U+4F60 U+597D, "world"); values that are not strings.         *)
(***************************************************************************)
StatsChars == {97, 32, 20320, 44032, 8203}

HELLO == <<104, 101, 108, 108, 111, 32, 20320, 22909, 32, 119, 111, 114, 108, 100>>

\* n words "a" with one space between them
Words(n) == [i \in 1..(n + n - 1) |-> IF i % 2 = 1 THEN 97 ELSE 32]

\* "a", TAB, U+200D, U+3000, U+FEFF, CR, "a", NBSP
SPACED == <<97, 9, 8205, 12288, 65279, 13, 97, 160>>

\* SP, U+200B, TAB, U+200C, U+FEFF
BLANK == <<32, 8203, 9, 8204, 65279>>

StatsSamples == {HELLO, SPACED, BLANK}

StatsInputs == {JsString(s) : s \in SeqsUpTo(StatsChars, MaxStatsLen) \cup StatsSamples}
               \cup {JsNumber, JsUndefined}

\* the attrs of a heading: none, without a level, with the level "3" (a string), with a number
HeadingAttrs == {NoAttrs,
                 [is |-> "object", level |-> [is |-> "undefined", num |-> 0]],
                 [is |-> "object", level |-> [is |-> "string", num |-> 3]]}
                \cup {Level(n) : n \in 0..MaxLevel}

\* headings over the leaves, alone or next to the plain text "a"
HeadingNodes == {Container("heading", a, items) : a \in HeadingAttrs, items \in ContentLists(Leaves)}

\* the children of a blockquote: texts, paragraphs and a heading, some of which render to nothing
QuoteChildren == {Sibling,
                  TextNode(<<>>, NoMarks),
                  NumberNode,
                  Container("paragraph", NoAttrs, <<TextNode(<<"b">>, NoMarks)>>),
                  Container("paragraph", NoAttrs, <<>>),
                  Container("heading", NoAttrs, <<Sibling>>)}

QuoteNodes == {Container("blockquote", NoAttrs, items) : items \in SeqsUpTo(QuoteChildren, MaxQuoteParts)}

\* the texts of 1, 2, ... words, up to MaxMoreWords words more than are read in a minute
WordsInputs == {JsString(Words(n)) : n \in 1..(WORDS_PER_MINUTE + MaxMoreWords)}

(***************************************************************************)
(* utils.js: debounce.  timeoutId, lastArgs and lastThis are the variables *)
(* of the closure (0 and "null" stand for null); timers holds the timers   *)
(* that were set and not cleared, each of which the clock may fire; a call *)
(* is the pair of its this and its arguments.  While func runs (pc is      *)
(* "timer" or "flush") nothing else runs but what func itself calls.       *)
(* invoked, recent, fate and op record the history: the invocations of     *)
(* func, the most recent call, what became of it, and the last step with   *)
(* what it found (a timer pending or not, the number of invocations).      *)
(***************************************************************************)
DebounceCalls == {[this |-> t, args |-> a] : t \in {"t1", "t2"}, a \in {"a1", "a2"}}

NoCall == [this |-> "null", args |-> "null"]

NoOp == [name |-> "none", pending |-> FALSE, count |-> 0]

DebounceIdle == /\ timeoutId = 0 /\ lastArgs = "null" /\ lastThis = "null" /\ timers = {}
                /\ invoked = <<>> /\ recent = NoCall /\ fate = "none" /\ op = NoOp


\* func.apply(lastThis, lastArgs), by the timer id (0 for flush), as the history records it
Applied(id) == [this |-> lastThis, args |-> lastArgs, recent |-> recent, fate |-> fate,
                timer |-> id, timeoutId |-> timeoutId]

\* debounced(...args), called by the program or by func while it runs
Debounced == /\ calls < MaxCalls
             /\ \E c \in DebounceCalls :
                   /\ lastArgs' = c.args
                   /\ lastThis' = c.this
                   /\ recent' = c
             /\ timers' = (timers \ {timeoutId}) \cup {calls + 1}
             /\ timeoutId' = calls + 1
             /\ calls' = calls + 1
             /\ fate' = "waiting"
             /\ op' = [name |-> "call", pending |-> timeoutId # 0, count |-> Len(invoked)]
             /\ UNCHANGED <<pc, invoked, coreVars, retryVars, modalVars, appVars>>

\* the callback of setTimeout, up to func.apply(lastThis, lastArgs)
TimerFires == /\ pc = "idle"
              /\ \E id \in timers :
                    /\ timers' = timers \ {id}
                    /\ invoked' = Append(invoked, Applied(id))
              /\ timeoutId' = 0
              /\ fate' = "invoked"
              /\ pc' = "timer"
              /\ op' = [name |-> "timer", pending |-> timeoutId # 0, count |-> Len(invoked)]
              /\ UNCHANGED <<calls, lastArgs, lastThis, recent, coreVars, retryVars, modalVars, appVars>>

\* func returns: lastArgs = null; lastThis = null
Return == /\ pc \in {"timer", "flush"}
          /\ lastArgs' = "null"
          /\ lastThis' = "null"
          /\ pc' = "idle"
          /\ op' = [name |-> "return", pending |-> timeoutId # 0, count |-> Len(invoked)]
          /\ UNCHANGED <<calls, timeoutId, timers, invoked, recent, fate, coreVars, retryVars, modalVars, appVars>>

\* debounced.flush(), up to func.apply(lastThis, lastArgs)
Flush == /\ pc = "idle"
         /\ op' = [name |-> "flush", pending |-> timeoutId # 0, count |-> Len(invoked)]
         /\ IF timeoutId # 0
            THEN /\ timers' = timers \ {timeoutId}
                 /\ timeoutId' = 0
                 /\ IF lastArgs # "null"
                    THEN /\ invoked' = Append(invoked, Applied(0))
                         /\ fate' = "invoked"
                         /\ pc' = "flush"
                    ELSE UNCHANGED <<invoked, fate, pc>>
            ELSE UNCHANGED <<timers, timeoutId, invoked, fate, pc>>
         /\ UNCHANGED <<calls, lastArgs, lastThis, recent, coreVars, retryVars, modalVars, appVars>>

\* debounced.cancel()
Cancel == /\ pc = "idle"
          /\ op' = [name |-> "cancel", pending |-> timeoutId # 0, count |-> Len(invoked)]
          /\ IF timeoutId # 0
             THEN /\ timers' = timers \ {timeoutId}
                  /\ timeoutId' = 0
                  /\ lastArgs' = "null"
                  /\ lastThis' = "null"
                  /\ fate' = "cancelled"
             ELSE UNCHANGED <<timers, timeoutId, lastArgs, lastThis, fate>>
          /\ UNCHANGED <<pc, calls, invoked, recent, coreVars, retryVars, modalVars, appVars>>

(***************************************************************************)
(* utils.js: retry.  attempts and onRetry are the options of the call      *)
(* (onRetry is TRUE when a callback was given), attempt and lastError its  *)
(* locals, pc its position: "call" before operation(), "await" while the   *)
(* promise of operation() is pending, "wait" during the pause, "done"      *)
(* when the promise of retry is settled.  outcomes, retried and waits      *)
(* record the settled invocations, the attempt numbers given to onRetry,   *)
(* and the pauses; inFlight counts the operations that have not settled.   *)
(***************************************************************************)
MaxAttempts == 3

DELAY == 1000

\* the default backoff, 1.5, as a fraction
BACKOFF == [num |-> 3, den |-> 2]

OperationValues == {"v1", "v2"}

OperationErrors == {"e1", "e2"}

Pending == [state |-> "pending", with |-> "undefined"]

RetryIdle == /\ attempts = 0 /\ onRetry = FALSE /\ attempt = 0 /\ lastError = "undefined"
             /\ inFlight = 0 /\ outcomes = <<>> /\ retried = <<>> /\ waits = <<>>
             /\ settled = Pending


RECURSIVE Pow(_, _)
Pow(b, e) == IF e = 0 THEN 1 ELSE b * Pow(b, e - 1)

\* delay * Math.pow(backoff, attempt - 1), as a fraction
Wait(a) == [num |-> DELAY * Pow(BACKOFF.num, a - 1), den |-> Pow(BACKOFF.den, a - 1)]

MoreAttempts_last(a, n) == a <= n

\* attempt < attempts
MoreAttempts(a, n) == a < n

\* attempt <= attempts: operation() is called and awaited
Invoke == /\ pc = "call"
          /\ attempt <= attempts
          /\ inFlight' = inFlight + 1
          /\ pc' = "await"
          /\ UNCHANGED <<calls, attempts, onRetry, attempt, lastError, outcomes, retried, waits,
                         settled, coreVars, debounceVars, modalVars, appVars>>

\* the promise of operation() is fulfilled: return its value
Resolves == /\ pc = "await"
            /\ \E v \in OperationValues :
                  /\ outcomes' = Append(outcomes, [ok |-> TRUE, with |-> v])
                  /\ settled' = [state |-> "fulfilled", with |-> v]
            /\ inFlight' = inFlight - 1
            /\ pc' = "done"
            /\ UNCHANGED <<calls, attempts, onRetry, attempt, lastError, retried, waits,
                           coreVars, debounceVars, modalVars, appVars>>

\* the promise of operation() is rejected: the catch block, then either the pause or, after
\* the last attempt, the end of the loop and throw lastError
Rejects == /\ pc = "await"
           /\ inFlight' = inFlight - 1
           /\ \E e \in OperationErrors :
                 /\ outcomes' = Append(outcomes, [ok |-> FALSE, with |-> e])
                 /\ lastError' = e
                 /\ IF MoreAttempts(attempt, attempts)
                    THEN /\ retried' = IF onRetry THEN Append(retried, attempt) ELSE retried
                         /\ waits' = Append(waits, Wait(attempt))
                         /\ pc' = "wait"
                         /\ UNCHANGED <<attempt, settled>>
                    ELSE /\ attempt' = attempt + 1
                         /\ settled' = [state |-> "rejected", with |-> e]
                         /\ pc' = "done"
                         /\ UNCHANGED <<retried, waits>>
           /\ UNCHANGED <<calls, attempts, onRetry, coreVars, debounceVars, modalVars, appVars>>

\* the timer of the pause fires: attempt++ and the next turn of the loop
WaitElapses == /\ pc = "wait"
               /\ attempt' = attempt + 1
               /\ pc' = IF attempt + 1 <= attempts THEN "call" ELSE "done"
               /\ settled' = IF attempt + 1 <= attempts THEN settled
                             ELSE [state |-> "rejected", with |-> lastError]
               /\ UNCHANGED <<calls, attempts, onRetry, lastError, inFlight, outcomes, retried,
                              waits, coreVars, debounceVars, modalVars, appVars>>

(***************************************************************************)
(* toolbar.js: LinkModal and its FocusTrap, after LinkModal.initialize().  *)
(* visible: the overlay has the class is-visible; scrollLocked: the body   *)
(* has overflow hidden; trapActive: the keydown listener of the focus trap *)
(* is attached; focusTrap: the fields overlay, modal, urlInput, errorEl,   *)
(* cancelBtn, confirmBtn and focusTrap hold their objects (FALSE: destroy  *)
(* set them to null and removed the listeners of the modal); onConfirm: 0  *)
(* for null, else the number of the opening whose callback it is; value:   *)
(* urlInput.value; linkError: the text of errorEl, with aria-invalid set   *)
(* exactly when it is not empty; activations: the timers of open() that    *)
(* have not fired.  confirmed records the calls of onConfirm and modalOp   *)
(* the last step, the state it found, and whether it ended by a TypeError. *)
(* Which element has the focus is not part of the model.                   *)
(***************************************************************************)
MaxOpens == 2

ENTER_URL == "Please enter a URL"

ModalValues == {<<>>, <<" ">>, EXAMPLE_COM, <<" ">> \o EXAMPLE_COM, JAVASCRIPT, JAVASCRIPT_TAB}

Snapshot(name, threw) ==
    [name |-> name, threw |-> threw, isOpen |-> isOpen, focusTrap |-> focusTrap,
     value |-> value, count |-> Len(confirmed), fields |-> modalFields]

ModalIdle == /\ isOpen = FALSE /\ visible = FALSE /\ scrollLocked = FALSE /\ trapActive = FALSE
             /\ focusTrap = TRUE /\ onConfirm = 0 /\ value = <<>> /\ linkError = ""
             /\ activations = 0 /\ opens = 0 /\ confirmed = <<>>
             /\ modalOp = [name |-> "none", threw |-> FALSE, isOpen |-> FALSE, focusTrap |-> TRUE,
                           value |-> <<>>, count |-> 0, fields |-> <<>>]


\* open(options): initialValue from ModalValues, onConfirm a function or null
Open == /\ opens < MaxOpens
        /\ IF isOpen
           THEN /\ modalOp' = Snapshot("open", FALSE)
                /\ UNCHANGED <<modalFields, opens>>
           ELSE IF ~focusTrap
           THEN \* this.urlInput is null: the assignment of its value throws
                /\ \E given \in BOOLEAN : onConfirm' = IF given THEN opens + 1 ELSE 0
                /\ modalOp' = Snapshot("open", TRUE)
                /\ UNCHANGED <<isOpen, visible, scrollLocked, trapActive, focusTrap, value,
                               linkError, activations, opens>>
           ELSE /\ \E given \in BOOLEAN : onConfirm' = IF given THEN opens + 1 ELSE 0
                /\ \E initialValue \in ModalValues : value' = initialValue
                /\ linkError' = ""
                /\ visible' = TRUE
                /\ isOpen' = TRUE
                /\ scrollLocked' = TRUE
                /\ activations' = activations + 1
                /\ opens' = opens + 1
                /\ modalOp' = Snapshot("open", FALSE)
                /\ UNCHANGED <<trapActive, focusTrap>>
        /\ UNCHANGED <<pc, calls, confirmed, coreVars, debounceVars, retryVars, appVars>>

\* the body of close(), as the step called name
CloseAs(name) ==
    IF ~isOpen
    THEN /\ modalOp' = Snapshot(name, FALSE)
         /\ UNCHANGED modalFields
    ELSE IF ~focusTrap
    THEN \* this.overlay is null: close() throws at its first statement
         /\ modalOp' = Snapshot(name, TRUE)
         /\ UNCHANGED modalFields
    ELSE /\ visible' = FALSE
         /\ isOpen' = FALSE
         /\ scrollLocked' = FALSE
         /\ trapActive' = FALSE
         /\ onConfirm' = 0
         /\ modalOp' = Snapshot(name, FALSE)
         /\ UNCHANGED <<focusTrap, value, linkError, activations>>

\* close(), called by the program
Close == /\ CloseAs("close")
         /\ UNCHANGED <<pc, calls, opens, confirmed, coreVars, debounceVars, retryVars, appVars>>

\* the timer of open() fires: this.focusTrap.activate()
Activate == /\ activations > 0
            /\ activations' = activations - 1
            /\ IF focusTrap
               THEN /\ trapActive' = TRUE
                    /\ modalOp' = Snapshot("activate", FALSE)
               ELSE /\ modalOp' = Snapshot("activate", TRUE)
                    /\ UNCHANGED trapActive
            /\ UNCHANGED <<isOpen, visible, scrollLocked, focusTrap, onConfirm, value, linkError>>
            /\ UNCHANGED <<pc, calls, opens, confirmed, coreVars, debounceVars, retryVars, appVars>>

\* the user edits the field: handleInput
HandleInput == /\ focusTrap
               /\ \E typed \in ModalValues :
                     /\ value' = typed
                     /\ linkError' = IF trim(typed) # <<>> THEN "" ELSE linkError
               /\ modalOp' = Snapshot("input", FALSE)
               /\ UNCHANGED <<isOpen, visible, scrollLocked, trapActive, focusTrap, onConfirm,
                              activations>>
               /\ UNCHANGED <<pc, calls, opens, confirmed, coreVars, debounceVars, retryVars, appVars>>

Rejected_never(result) == FALSE

\* !validation.valid
Rejected(result) == ~result.valid

\* the body of handleConfirm(), as the step called name
ConfirmAs(name) ==
    IF trim(value) = <<>>
    THEN /\ linkError' = ENTER_URL
         /\ modalOp' = Snapshot(name, FALSE)
         /\ UNCHANGED <<isOpen, visible, scrollLocked, trapActive, focusTrap, onConfirm, value,
                        activations, confirmed>>
    ELSE IF Rejected(validateURL(JsString(trim(value))))
    THEN /\ linkError' = validateURL(JsString(trim(value))).error
         /\ modalOp' = Snapshot(name, FALSE)
         /\ UNCHANGED <<isOpen, visible, scrollLocked, trapActive, focusTrap, onConfirm, value,
                        activations, confirmed>>
    ELSE /\ confirmed' = IF onConfirm # 0
                         THEN Append(confirmed, [url |-> validateURL(JsString(trim(value))).url,
                                                 given |-> onConfirm, isOpen |-> isOpen])
                         ELSE confirmed
         /\ CloseAs(name)

\* a click on the confirm button
HandleConfirm == /\ focusTrap
                 /\ ConfirmAs("confirm")
                 /\ UNCHANGED <<pc, calls, opens, coreVars, debounceVars, retryVars, appVars>>

\* a click on the cancel button
HandleCancel == /\ focusTrap
                /\ CloseAs("cancel")
                /\ UNCHANGED <<pc, calls, opens, confirmed, coreVars, debounceVars, retryVars, appVars>>

\* a click on the overlay or on something inside it
HandleOverlayClick ==
    /\ focusTrap
    /\ \E target \in {"overlay", "modal"} :
          IF target = "overlay" THEN CloseAs("overlay")
          ELSE modalOp' = Snapshot("inside", FALSE) /\ UNCHANGED modalFields
    /\ UNCHANGED <<pc, calls, opens, confirmed, coreVars, debounceVars, retryVars, appVars>>

\* a key pressed in the field
HandleKeyDown ==
    /\ focusTrap
    /\ \E key \in {"Enter", "Escape", "a"} :
          IF key = "Enter" THEN ConfirmAs("enter")
          ELSE IF key = "Escape" THEN CloseAs("escape") /\ UNCHANGED confirmed
          ELSE modalOp' = Snapshot("key", FALSE) /\ UNCHANGED <<modalFields, confirmed>>
    /\ UNCHANGED <<pc, calls, opens, coreVars, debounceVars, retryVars, appVars>>

\* destroy()
Destroy == /\ trapActive' = FALSE
           /\ focusTrap' = FALSE
           /\ onConfirm' = 0
           /\ modalOp' = Snapshot("destroy", FALSE)
           /\ UNCHANGED <<isOpen, visible, scrollLocked, value, linkError, activations>>
           /\ UNCHANGED <<pc, calls, opens, confirmed, coreVars, debounceVars, retryVars, appVars>>

(***************************************************************************)
(* app.js: ContentEditorApp.initialize with its Retry button, and          *)
(* toolbar.js: ToolbarController.  listeners is the set of controllers     *)
(* whose handleClick is attached to the toolbar element (a controller is   *)
(* the number of the initialize() that made it), toolbar the controller    *)
(* the app holds (0 for null), editor whether the app holds an editor; pc  *)
(* is "start" before initialize(), "loading" while it awaits the modules   *)
(* and the editor, "failed" while the Retry button is shown, "ready" after *)
(* it.  clicked, handled and commands record the last click with the       *)
(* position of the app at that moment, the calls of handleToolbarAction it *)
(* caused, and the editor commands these ran.                              *)
(***************************************************************************)
MaxInits == 3

\* the formatting actions of the toolbar (the link action opens the modal instead)
FormatActions == {"heading2", "heading3", "paragraph", "bold", "italic", "code", "bulletList",
                  "blockquote"}

NoClick == [action |-> "none", disabled |-> FALSE, at |-> "none"]

AppIdle == /\ listeners = {} /\ toolbar = 0 /\ editor = FALSE
           /\ clicked = NoClick /\ handled = <<>> /\ commands = <<>>

UiIdle == DebounceIdle /\ RetryIdle /\ ModalIdle /\ AppIdle

\* initControllers: a new ToolbarController, initialized with onAction: handleToolbarAction
InitControllers == /\ toolbar' = Cardinality(listeners) + 1
                   /\ listeners' = listeners \cup {Cardinality(listeners) + 1}

\* handleToolbarAction, called once by the handleClick of every attached controller
Handled(click) == IF click.disabled THEN <<>>
                  ELSE [k \in 1..Cardinality(listeners) |-> click.action]

\* initialize(), up to the await of loadTiptapModules
Initialize == /\ pc = "start"
              /\ InitControllers
              /\ pc' = "loading"
              /\ UNCHANGED <<calls, editor, clicked, handled, commands, coreVars, debounceVars,
                             retryVars, modalVars>>

\* loadTiptapModules or createEditor throws: handleInitError shows the Retry button
LoadFails == /\ pc = "loading"
             /\ pc' = "failed"
             /\ UNCHANGED <<calls, appVars, coreVars, debounceVars, retryVars, modalVars>>

\* the modules load and createEditor sets this.editor
LoadSucceeds == /\ pc = "loading"
                /\ editor' = TRUE
                /\ pc' = "ready"
                /\ UNCHANGED <<calls, listeners, toolbar, clicked, handled, commands, coreVars,
                               debounceVars, retryVars, modalVars>>

\* a click on the Retry button: () => this.initialize()
RetryClick == /\ pc = "failed"
              /\ Cardinality(listeners) < MaxInits
              /\ InitControllers
              /\ pc' = "loading"
              /\ UNCHANGED <<calls, editor, clicked, handled, commands, coreVars, debounceVars,
                             retryVars, modalVars>>

\* a click on a button of the toolbar: every attached handleClick runs
ToolbarClick == /\ \E action \in FormatActions, disabled \in BOOLEAN :
                      /\ clicked' = [action |-> action, disabled |-> disabled, at |-> pc]
                      /\ handled' = Handled([action |-> action, disabled |-> disabled])
                      /\ commands' = IF editor
                                     THEN Handled([action |-> action, disabled |-> disabled])
                                     ELSE <<>>
                /\ UNCHANGED <<pc, calls, listeners, toolbar, editor, coreVars, debounceVars,
                               retryVars, modalVars>>

(***************************************************************************)
(* The programs of the model.  Each calls one exported function on an      *)
(* input; the variables of the other programs keep their initial value.    *)
(***************************************************************************)
\* SpecURL: one call of validateURL(url)
InitURL == /\ pc = "ready"
           /\ url \in UrlInputs
           /\ validation = NoValidation
           /\ json = NullNode /\ html = <<>> /\ formatted = <<>> /\ node = NullNode /\ rendered = <<>>
           /\ text = JsUndefined /\ stats = ZeroStats /\ lastIndex = 0 /\ calls = 0 /\ answer = FALSE /\ UiIdle

ValidateURL == /\ pc = "ready"
               /\ validation' = validateURL(url)
               /\ pc' = "done"
               /\ UNCHANGED <<uiVars, answer, json, html, formatted, node, rendered, url, text, stats, lastIndex, calls>>

NextURL == ValidateURL

SpecURL == InitURL /\ [][NextURL]_vars

\* SpecText: one call of processText(node)
InitText == /\ pc = "ready"
            /\ node \in TextNodes
            /\ rendered = <<>>
            /\ json = NullNode /\ html = <<>> /\ formatted = <<>> /\ url = JsUndefined /\ validation = NoValidation
            /\ text = JsUndefined /\ stats = ZeroStats /\ lastIndex = 0 /\ calls = 0 /\ answer = FALSE /\ UiIdle

ProcessText == /\ pc = "ready"
               /\ rendered' = processText(node)
               /\ pc' = "done"
               /\ UNCHANGED <<uiVars, answer, json, html, formatted, node, url, validation, text, stats, lastIndex, calls>>

NextText == ProcessText

SpecText == InitText /\ [][NextText]_vars

\* SpecHeading: one call of processHeading(node)
InitHeading == /\ pc = "ready"
               /\ node \in HeadingNodes
               /\ rendered = <<>>
               /\ json = NullNode /\ html = <<>> /\ formatted = <<>> /\ url = JsUndefined
               /\ validation = NoValidation
               /\ text = JsUndefined /\ stats = ZeroStats /\ lastIndex = 0 /\ calls = 0 /\ answer = FALSE /\ UiIdle

ProcessHeading == /\ pc = "ready"
                  /\ rendered' = processHeading(node)
                  /\ pc' = "done"
                  /\ UNCHANGED <<uiVars, answer, json, html, formatted, node, url, validation, text, stats, lastIndex, calls>>

NextHeading == ProcessHeading

SpecHeading == InitHeading /\ [][NextHeading]_vars

\* SpecQuote: one call of processBlockquote(node)
InitQuote == /\ pc = "ready"
             /\ node \in QuoteNodes
             /\ rendered = <<>>
             /\ json = NullNode /\ html = <<>> /\ formatted = <<>> /\ url = JsUndefined
             /\ validation = NoValidation
             /\ text = JsUndefined /\ stats = ZeroStats /\ lastIndex = 0 /\ calls = 0 /\ answer = FALSE /\ UiIdle

ProcessBlockquote == /\ pc = "ready"
                     /\ rendered' = processBlockquote(node)
                     /\ pc' = "done"
                     /\ UNCHANGED <<uiVars, answer, json, html, formatted, node, url, validation, text, stats, lastIndex, calls>>

NextQuote == ProcessBlockquote

SpecQuote == InitQuote /\ [][NextQuote]_vars

\* SpecExport: one call of generateCleanHTML(json), then one of formatHTMLForDisplay on its result
InitExport == /\ pc = "ready"
              /\ json \in Documents
              /\ html = <<>> /\ formatted = <<>>
              /\ node = NullNode /\ rendered = <<>> /\ url = JsUndefined /\ validation = NoValidation
              /\ text = JsUndefined /\ stats = ZeroStats /\ lastIndex = 0 /\ calls = 0 /\ answer = FALSE /\ UiIdle

Export == /\ pc = "ready"
          /\ html' = generateCleanHTML(json)
          /\ pc' = "done"
          /\ UNCHANGED <<uiVars, answer, json, formatted, node, rendered, url, validation, text, stats, lastIndex, calls>>

\* the preview: formatHTMLForDisplay of the string that generateCleanHTML returned
Format == /\ pc = "done"
          /\ html # TypeError
          /\ formatted' = formatHTMLForDisplay(html)
          /\ pc' = "formatted"
          /\ UNCHANGED <<uiVars, answer, json, html, node, rendered, url, validation, text, stats, lastIndex, calls>>

NextExport == Export \/ Format

SpecExport == InitExport /\ [][NextExport]_vars

\* SpecStats: a program that calls calculateStats again and again; REGEX.cjk is fresh (lastIndex = 0)
InitStats == /\ pc = "ready"
             /\ text = JsUndefined /\ stats = ZeroStats /\ lastIndex = 0 /\ calls = 0 /\ answer = FALSE /\ UiIdle
             /\ json = NullNode /\ html = <<>> /\ formatted = <<>> /\ node = NullNode /\ rendered = <<>>
             /\ url = JsUndefined /\ validation = NoValidation

CalculateStats == /\ calls < MaxCalls
                  /\ \E t \in StatsInputs :
                        /\ text' = t
                        /\ stats' = calculateStats(t, lastIndex).result
                        /\ lastIndex' = calculateStats(t, lastIndex).lastIndex
                  /\ calls' = calls + 1
                  /\ pc' = "done"
                  /\ UNCHANGED <<uiVars, answer, json, html, formatted, node, rendered, url, validation>>

NextStats == CalculateStats

SpecStats == InitStats /\ [][NextStats]_vars

\* SpecCJK: a program that calls the exported containsCJK and calculateStats in any order
ContainsCJK == /\ calls < MaxCalls
               /\ \E t \in StatsInputs :
                     /\ text' = t
                     /\ answer' = (t.is = "string" /\ containsCJK(t.str, lastIndex).result)
                     /\ lastIndex' = IF t.is = "string" THEN containsCJK(t.str, lastIndex).lastIndex
                                     ELSE lastIndex
               /\ calls' = calls + 1
               /\ pc' = "contains"
               /\ UNCHANGED <<uiVars, json, html, formatted, node, rendered, url, validation, stats>>

NextCJK == ContainsCJK \/ CalculateStats

SpecCJK == InitStats /\ [][NextCJK]_vars

\* the exporter, the validator and the statistics before their first use
CoreIdle == /\ json = NullNode /\ html = <<>> /\ formatted = <<>> /\ node = NullNode
            /\ rendered = <<>> /\ url = JsUndefined /\ validation = NoValidation
            /\ text = JsUndefined /\ stats = ZeroStats /\ lastIndex = 0 /\ answer = FALSE

\* SpecDebounce: a program that uses one debounced function
InitDebounce == pc = "idle" /\ calls = 0 /\ CoreIdle /\ UiIdle

\* SpecModal: a LinkModal after initialize(), used by the program and by the user
InitModal == pc = "idle" /\ calls = 0 /\ CoreIdle /\ UiIdle

NextModal == \/ Open \/ Close \/ Activate \/ HandleInput \/ HandleConfirm \/ HandleCancel
             \/ HandleOverlayClick \/ HandleKeyDown \/ Destroy

SpecModal == InitModal /\ [][NextModal]_vars

\* SpecApp: the start of the application, its failures and restarts, and clicks on the toolbar
InitApp == pc = "start" /\ calls = 0 /\ CoreIdle /\ UiIdle

NextApp == Initialize \/ LoadFails \/ LoadSucceeds \/ RetryClick \/ ToolbarClick

SpecApp == InitApp /\ [][NextApp]_vars

\* SpecRetry: one call of retry with attempts in 1..MaxAttempts, with and without onRetry
InitRetry == /\ pc = "call" /\ calls = 0 /\ CoreIdle /\ DebounceIdle /\ ModalIdle /\ AppIdle
             /\ attempts \in 1..MaxAttempts /\ onRetry \in BOOLEAN
             /\ attempt = 1 /\ lastError = "undefined" /\ inFlight = 0
             /\ outcomes = <<>> /\ retried = <<>> /\ waits = <<>> /\ settled = Pending

NextRetry == Invoke \/ Resolves \/ Rejects \/ WaitElapses

SpecRetry == InitRetry /\ [][NextRetry]_vars

NextDebounce == Debounced \/ TimerFires \/ Return \/ Flush \/ Cancel

SpecDebounce == InitDebounce /\ [][NextDebounce]_vars

\* SpecReading: one call of calculateStats(text), also on the long texts
InitReading == /\ pc = "ready"
               /\ text \in StatsInputs \cup WordsInputs
               /\ stats = ZeroStats /\ lastIndex = 0 /\ calls = 0 /\ answer = FALSE /\ UiIdle
               /\ json = NullNode /\ html = <<>> /\ formatted = <<>> /\ node = NullNode /\ rendered = <<>>
               /\ url = JsUndefined /\ validation = NoValidation

ReadingTime == /\ pc = "ready"
               /\ stats' = calculateStats(text, lastIndex).result
               /\ lastIndex' = calculateStats(text, lastIndex).lastIndex
               /\ calls' = calls + 1
               /\ pc' = "done"
               /\ UNCHANGED <<uiVars, answer, json, html, formatted, node, rendered, url, validation, text>>

NextReading == ReadingTime

SpecReading == InitReading /\ [][NextReading]_vars

(***************************************************************************)
(* Reading the output: where a piece stands in a string, the tags.         *)
(***************************************************************************)
At(h, i, piece) == i + Len(piece) - 1 <= Len(h) /\ SubSeq(h, i, i + Len(piece) - 1) = piece

\* the position of the '>' that closes the tag opened at i, 0 when there is none
TagEnd(h, i) == IF \E j \in (i + 1)..Len(h) : h[j] = ">"
                THEN CHOOSE j \in (i + 1)..Len(h) : h[j] = ">" /\ \A k \in (i + 1)..(j - 1) : h[k] # ">"
                ELSE 0

\* what stands between the '<' at i and its '>'
TagBody(h, i) == IF TagEnd(h, i) = 0 THEN SubSeq(h, i + 1, Len(h)) ELSE SubSeq(h, i + 1, TagEnd(h, i) - 1)

\* the name of a tag body: without the '/' of a closing tag and without attributes
TagName(body) ==
    LET b == IF body # <<>> /\ body[1] = "/" THEN Tail(body) ELSE body
    IN  IF IndexOf(b, " ") = 0 THEN b ELSE SubSeq(b, 1, IndexOf(b, " ") - 1)

AllowedTagNames == {<<"p">>, <<"h", "2">>, <<"h", "3">>, <<"u", "l">>, <<"l", "i">>,
                    <<"s", "t", "r", "o", "n", "g">>, <<"e", "m">>, <<"a">>,
                    <<"c", "o", "d", "e">>, <<"b", "l", "o", "c", "k", "q", "u", "o", "t", "e">>}

\* C1: every tag of the output of generateCleanHTML is one of p, h2, h3, ul, li, strong, em, a,
\* code, blockquote
C1_OnlyAllowedTags ==
    (pc = "done" /\ html # TypeError) =>
        \A i \in 1..Len(html) : html[i] = "<" => TagName(TagBody(html, i)) \in AllowedTagNames

IsTagNameChar(c) == IsAlpha(c) \/ c \in {"2", "3"}

IsTagName(b) == b # <<>> /\ \A k \in 1..Len(b) : IsTagNameChar(b[k])

A_HREF == Tail(A_OPEN)

\* the value of the href attribute of an anchor body
HrefValue(body) == SubSeq(body, Len(A_HREF) + 1, Len(body) - 1)

IsAnchorBody(body) == /\ Len(body) > Len(A_HREF)
                      /\ StartsWith(body, A_HREF)
                      /\ body[Len(body)] = "\""

IsTagBody(body) == \/ IsTagName(body)
                   \/ body # <<>> /\ body[1] = "/" /\ IsTagName(Tail(body))
                   \/ IsAnchorBody(body)

Entities == {AMP, LT, GT, QUOT, APOS}

\* C2: in the output of generateCleanHTML every '<' opens and every '>' closes a tag the exporter
\* wrote and every '&' begins an entity, so no '<', '>' or '&' of a text reaches the output raw;
\* and no href value holds a raw double or single quote
C2_TextAndHrefEscaped ==
    (pc = "done" /\ html # TypeError) =>
        /\ \A i \in 1..Len(html) : html[i] = "&" => \E e \in Entities : At(html, i, e)
        /\ \A i \in 1..Len(html) : html[i] = "<" =>
               /\ TagEnd(html, i) # 0
               /\ IsTagBody(TagBody(html, i))
               /\ IsAnchorBody(TagBody(html, i)) =>
                      \A k \in 1..Len(HrefValue(TagBody(html, i))) :
                          HrefValue(TagBody(html, i))[k] \notin {"\"", "'", "<"}
        /\ \A j \in 1..Len(html) : html[j] = ">" =>
               \E i \in 1..(j - 1) : html[i] = "<" /\ TagEnd(html, i) = j

\* C2 witness: an output with an escaped '<' of a text and an escaped quote inside an href
C2_Witness ==
    /\ pc = "done" /\ html # TypeError
    /\ Includes(html, LT \o AMP \o GT)
    /\ \E i \in 1..Len(html) : /\ html[i] = "<"
                               /\ IsAnchorBody(TagBody(html, i))
                               /\ Includes(HrefValue(TagBody(html, i)), QUOT \o APOS)

\* C3: generateCleanHTML never throws
C3_NeverThrows == pc = "done" => html # TypeError

\* C4: a result of validateURL with valid = true has a url whose scheme is http:, https: or mailto:
C4_ValidSchemeOnly ==
    (pc = "done" /\ validation.valid) =>
        SubSeq(validation.url, 1, IndexOf(validation.url, ":")) \in {HTTP, HTTPS, MAILTO}

\* C4 witness: a valid result of the path that prepends https:// after a failed parse
C4_Witness ==
    /\ pc = "done" /\ validation.valid
    /\ url.is = "string" /\ ~ParseURL(trim(url.str)).ok
    /\ StartsWith(validation.url, HTTPS)

BlockedPrefixes == {JAVASCRIPT, DATA, VBSCRIPT}

\* s, without the white space around it, begins with a blocked scheme in any mix of cases
BeginsBlocked(s) ==
    \E p \in BlockedPrefixes :
        /\ Len(trim(s)) >= Len(p)
        /\ \A i \in 1..Len(p) : LowerChar(trim(s)[i]) = p[i]

\* C5: an input that begins, after trimming, with javascript:, data: or vbscript: in any mix of
\* cases is invalid, and it is the block list that rejects it, before any parsing
C5_BlockedNeverValid ==
    (pc = "done" /\ url.is = "string" /\ BeginsBlocked(url.str)) =>
        /\ ~validation.valid
        /\ validation.error = "Invalid URL protocol"

\* C5 witness: a blocked input that the https:// fallback would have accepted
C5_Witness ==
    /\ pc = "done" /\ url.is = "string" /\ BeginsBlocked(url.str)
    /\ ~ParseURL(trim(url.str)).ok
    /\ ~Includes(trim(url.str), <<":", "/", "/">>)
    /\ ParseURL(HTTPS \o <<"/", "/">> \o trim(url.str)).ok
    /\ ~validation.valid

IsLink(m) == m.is = "object" /\ m.type = "link"

\* a link mark whose href is missing, empty, not a string, or rejected by validateURL
IsBadLink(m) ==
    /\ IsLink(m)
    /\ \/ m.attrs.is # "object"
       \/ m.attrs.href.is # "string"
       \/ m.attrs.href.str = <<>>
       \/ ~validateURL(m.attrs.href).valid

IsMarkedText(n) == n.is = "object" /\ n.type = "text" /\ n.text.is = "string" /\ n.marks.is = "array"

WithoutLinks(n) == [n EXCEPT !.marks.items = SelectSeq(@, LAMBDA m : ~IsLink(m))]

\* C6: a text whose link mark has a bad href is rendered with no anchor tag and otherwise exactly
\* as the same text without the link mark
C6_BadLinkUnlinked ==
    (pc = "done" /\ IsMarkedText(node) /\ \E i \in 1..Len(node.marks.items) : IsBadLink(node.marks.items[i])) =>
        /\ rendered = processText(WithoutLinks(node))
        /\ rendered # TypeError =>
               /\ ~Includes(rendered, <<"<", "a", " ">>)
               /\ ~Includes(rendered, <<"<", "/", "a", ">">>)

\* C6 witness: a rejected javascript: link next to a bold mark, rendered as bold text only
C6_Witness ==
    /\ pc = "done" /\ IsMarkedText(node)
    /\ \E i \in 1..Len(node.marks.items) :
           IsBadLink(node.marks.items[i]) /\ node.marks.items[i].attrs.href = JsString(JAVASCRIPT_A)
    /\ rendered = <<"<", "s", "t", "r", "o", "n", "g", ">", "a", "<", "/", "s", "t", "r", "o", "n", "g", ">">>

\* the marks of n are among link (valid href), bold, italic, code, each at most once
HasCanonicalMarks(n) ==
    /\ IsMarkedText(n)
    /\ \A i \in 1..Len(n.marks.items) :
           LET m == n.marks.items[i]
           IN  /\ m.is = "object"
               /\ m.type \in {"link", "bold", "italic", "code"}
               /\ IsLink(m) => ~IsBadLink(m)
               /\ \A j \in 1..Len(n.marks.items) : n.marks.items[j].type = m.type => j = i

Has(n, type) == \E i \in 1..Len(n.marks.items) : n.marks.items[i].type = type

The(n, type) == n.marks.items[CHOOSE i \in 1..Len(n.marks.items) : n.marks.items[i].type = type]

ExpectedOpen(n) ==
    (IF Has(n, "link")
     THEN <<"<", "a", " ", "h", "r", "e", "f", "=", "\"">> \o escapeAttribute(validateURL(The(n, "link").attrs.href).url) \o <<"\"", ">">>
     ELSE <<>>)
    \o (IF Has(n, "bold") THEN <<"<", "s", "t", "r", "o", "n", "g", ">">> ELSE <<>>)
    \o (IF Has(n, "italic") THEN <<"<", "e", "m", ">">> ELSE <<>>)
    \o (IF Has(n, "code") THEN <<"<", "c", "o", "d", "e", ">">> ELSE <<>>)

ExpectedClose(n) ==
    (IF Has(n, "code") THEN <<"<", "/", "c", "o", "d", "e", ">">> ELSE <<>>)
    \o (IF Has(n, "italic") THEN <<"<", "/", "e", "m", ">">> ELSE <<>>)
    \o (IF Has(n, "bold") THEN <<"<", "/", "s", "t", "r", "o", "n", "g", ">">> ELSE <<>>)
    \o (IF Has(n, "link") THEN <<"<", "/", "a", ">">> ELSE <<>>)

Permuted(n, p) == [n EXCEPT !.marks.items = [i \in 1..Len(@) |-> @[p[i]]]]

\* C7: with marks among link (valid), bold, italic, code, the output opens a, strong, em, code in
\* this order, closes them in the reverse order, and is the same for every order of the marks
C7_MarkOrderCanonical ==
    (pc = "done" /\ HasCanonicalMarks(node)) =>
        /\ rendered = ExpectedOpen(node) \o escapeHTML(node.text.str) \o ExpectedClose(node)
        /\ \A p \in Permutations(1..Len(node.marks.items)) : processText(Permuted(node, p)) = rendered

\* C7 witness: the four marks, given with code first and the link last
C7_Witness ==
    /\ pc = "done" /\ HasCanonicalMarks(node)
    /\ Len(node.marks.items) = 4
    /\ node.marks.items[1].type = "code"
    /\ node.marks.items[4].type = "link"
    /\ StartsWith(rendered, <<"<">> \o A_HREF)

BlockTags == {<<"p">>, <<"h", "2">>, <<"h", "3">>, <<"l", "i">>,
              <<"b", "l", "o", "c", "k", "q", "u", "o", "t", "e">>}

\* at i stands an element <tag>...</tag> whose content is empty or white space only
IsBlankElement(h, i, tag) ==
    LET open == <<"<">> \o tag \o <<">">>
        close == <<"<", "/">> \o tag \o <<">">>
    IN  /\ At(h, i, open)
        /\ \E k \in (i + Len(open))..Len(h) :
               /\ At(h, k, close)
               /\ \A j \in (i + Len(open))..(k - 1) : h[j] \in WhiteSpace

\* C8: the output has no p, h2, h3, li or blockquote element whose content is empty or white
\* space only
C8_NoBlankElements ==
    (pc = "done" /\ html # TypeError) =>
        \A i \in 1..Len(html) : \A tag \in BlockTags : ~IsBlankElement(html, i, tag)

\* C9: every call of calculateStats gives the result of the same call made first in a fresh
\* program, whatever calls came before it
C9_StatsPure == pc = "done" => stats = calculateStats(text, 0).result

\* C9 witness: a second call, on a text that begins with a CJK character followed by a letter
C9_Witness ==
    /\ pc = "done" /\ calls = 2
    /\ text.is = "string" /\ Len(text.str) >= 2 /\ IsCJK(text.str[1]) /\ text.str[2] = 97
    /\ stats.words = 2

\* the CJK ranges as the claim gives them
InCJKRanges(c) == \/ 19968 <= c /\ c <= 40959
                  \/ 13312 <= c /\ c <= 19903
                  \/ 12352 <= c /\ c <= 12543
                  \/ 44032 <= c /\ c <= 55215

\* the number of non-empty tokens of s between white space: the places where a token begins
Tokens(s) == Cardinality({i \in 1..Len(s) : ~IsSpace(s[i]) /\ (i = 1 \/ IsSpace(s[i - 1]))})

\* the word count the claim gives to the text s
ClaimedWords(s) ==
    IF \E i \in 1..Len(s) : InCJKRanges(s[i])
    THEN Cardinality({i \in 1..Len(s) : InCJKRanges(s[i])})
         + Tokens([i \in 1..Len(s) |-> IF InCJKRanges(s[i]) THEN 32 ELSE s[i]])
    ELSE Tokens(s)

\* C10 as stated: words = the CJK characters of the text plus the tokens left between them, or
\* the tokens of the text when it has no CJK character
C10_WordsOfText == (pc = "done" /\ text.is = "string") => stats.words = ClaimedWords(text.str)

\* C10 amended: the same count, taken of the text without its zero-width characters; the
\* example text of the documentation counts 4 words
C10_WordsOfNormalizedText ==
    (pc = "done" /\ text.is = "string") =>
        /\ stats.words = ClaimedWords(SelectSeq(text.str, LAMBDA c : c \notin {8203, 8204, 8205, 65279}))
        /\ text.str = HELLO => stats.words = 4

\* C10 witness: the example text, counted as 2 CJK characters and 2 Western words
C10_Witness == pc = "done" /\ text = JsString(HELLO) /\ stats.words = 4

\* C11: calculateStats returns readingTimeMinutes = ceiling(words / 200): the least whole number
\* of minutes in which words are read at 200 words a minute, 0 for no word.
C11_ReadingTimeIsCeiling ==
    pc = "done" =>
        /\ stats.readingTimeMinutes \in Nat
        /\ stats.readingTimeMinutes * WORDS_PER_MINUTE >= stats.words
        /\ \A m \in 0..(stats.readingTimeMinutes - 1) : m * WORDS_PER_MINUTE < stats.words

\* a text of 201 words takes two minutes
C11_Witness ==
    /\ pc = "done"
    /\ text = JsString(Words(WORDS_PER_MINUTE + 1))
    /\ stats.words = WORDS_PER_MINUTE + 1
    /\ stats.readingTimeMinutes = 2

\* the white space and the zero-width characters of the claims, by code unit
InWhiteSpace(c) == \/ c \in {9, 10, 11, 12, 13, 32, 160, 5760, 8232, 8233, 8239, 8287, 12288, 65279}
                   \/ c \in 8192..8202

InZeroWidth(c) == c \in {8203, 8204, 8205, 65279}

Visible(s) == {i \in 1..Len(s) : ~InWhiteSpace(s[i]) /\ ~InZeroWidth(s[i])}

\* C12: calculateStats returns characters = the number of characters of the text that are
\* neither white space nor zero-width characters, wherever they stand in the text.
C12_CharactersAreVisible ==
    (pc = "done" /\ text.is = "string") => stats.characters = Cardinality(Visible(text.str))

\* a text with white space and zero-width characters between and after its two letters
C12_Witness ==
    /\ pc = "done"
    /\ text = JsString(SPACED)
    /\ stats.characters = 2

\* C13: calculateStats returns {words: 0, characters: 0, readingTimeMinutes: 0} for every input
\* that is not a string, for the empty string and for every string made only of white space and
\* zero-width characters.
C13_ZeroResult ==
    (pc = "done" /\ (text.is # "string" \/ Visible(text.str) = {})) => stats = ZeroStats

\* a string of white space and zero-width characters, after a call with a text of words
C13_Witness ==
    /\ pc = "done"
    /\ text = JsString(BLANK)
    /\ stats = ZeroStats
    /\ calls > 1

\* the reasons that validateURL gives
URL_REQUIRED == "URL is required"

BAD_PROTOCOL == "Invalid URL protocol"

NOT_ALLOWED == "Only HTTP, HTTPS, and mailto links are allowed"

BAD_FORMAT == "Invalid URL format"

\* C14: validateURL ends with a result and never with an exception; an invalid result has the
\* empty url and a reason that names the check that failed (URL missing, protocol disallowed,
\* format unparsable); a valid result has a non-empty url.
C14_TypedResult ==
    pc = "done" =>
        /\ validation # Uncaught
        /\ validation.valid => validation.url # <<>>
        /\ ~validation.valid =>
              /\ validation.url = <<>>
              /\ validation.error \in {URL_REQUIRED, BAD_PROTOCOL, NOT_ALLOWED, BAD_FORMAT}
              /\ validation.error = URL_REQUIRED <=> (url.is # "string" \/ url.str = <<>>)
              /\ validation.error = BAD_PROTOCOL => BeginsBlocked(url.str)
              /\ validation.error = NOT_ALLOWED =>
                    /\ ParseURL(trim(url.str)).ok
                    /\ ParseURL(trim(url.str)).protocol \notin {HTTP, HTTPS, MAILTO}
              /\ validation.error = BAD_FORMAT => ~ParseURL(trim(url.str)).ok

\* an input that parses neither as it is nor behind https://: both exceptions are caught
C14_Witness ==
    /\ pc = "done"
    /\ url.is = "string" /\ url.str # <<>>
    /\ ~Includes(url.str, <<":", "/", "/">>)
    /\ ~ParseURL(HTTPS \o <<"/", "/">> \o trim(url.str)).ok
    /\ validation = [valid |-> FALSE, url |-> <<>>, error |-> BAD_FORMAT]

\* what the claim says of an input whose trimmed text does not parse
FallbackResult(trimmed) ==
    IF ~Includes(trimmed, <<":", "/", "/">>) /\ ~StartsWith(trimmed, MAILTO)
    THEN IF ParseURL(HTTPS \o <<"/", "/">> \o trimmed).ok
         THEN /\ validation.valid
              /\ validation.url = ParseURL(HTTPS \o <<"/", "/">> \o trimmed).href
         ELSE ~validation.valid
    ELSE ~validation.valid

\* C15 as stated: when the trimmed input does not parse as an absolute URL, the result is that
\* of the reparse behind https:// if and only if the input has no "://" and does not start with
\* "mailto:", and invalid otherwise
C15_FallbackOfUnparsed ==
    (pc = "done" /\ url.is = "string" /\ ~ParseURL(trim(url.str)).ok) => FallbackResult(trim(url.str))

\* C15 amended: the same, for the inputs that the block list lets through
C15_FallbackOfUnblocked ==
    (pc = "done" /\ url.is = "string" /\ ~ParseURL(trim(url.str)).ok /\ ~BeginsBlocked(url.str))
        => FallbackResult(trim(url.str))

\* the bare domain of the documentation is accepted behind https://
C15_Witness ==
    /\ pc = "done"
    /\ url = JsString(EXAMPLE_COM)
    /\ ~ParseURL(EXAMPLE_COM).ok
    /\ validation.valid
    /\ validation.url = HTTPS \o <<"/", "/">> \o EXAMPLE_COM \o <<"/">>

\* the position of the next '<' at or after i, Len(h) + 1 when there is none
NextTag(h, i) == IF \E j \in i..Len(h) : h[j] = "<"
                 THEN CHOOSE j \in i..Len(h) : h[j] = "<" /\ \A k \in i..(j - 1) : h[k] # "<"
                 ELSE Len(h) + 1

IsBlank(s) == \A k \in 1..Len(s) : s[k] \in {" ", "\t", "\n"}

\* what begins at i: a tag, a run of text up to the next tag, or nothing
ItemAt(h, i) ==
    IF h[i] = "<" THEN [is |-> "tag", str |-> TagBody(h, i)]
    ELSE IF i = 1 \/ h[i - 1] = ">" THEN [is |-> "text", str |-> SubSeq(h, i, NextTag(h, i) - 1)]
    ELSE [is |-> "none", str |-> <<>>]

\* the tags of h and the runs of text between them, without the runs of white space only
Essence(h) ==
    SelectSeq([i \in 1..Len(h) |-> ItemAt(h, i)],
              LAMBDA x : x.is = "tag" \/ (x.is = "text" /\ ~IsBlank(x.str)))

\* C16: formatHTMLForDisplay(generateCleanHTML(doc)) differs from generateCleanHTML(doc) only in
\* white space between tags: the tags are the same, in the same order, and every run of text that
\* is not white space only is unchanged, its spaces and newlines included.
C16_FormatKeepsContent == pc = "formatted" => Essence(formatted) = Essence(html)

\* C17: escaping for the HTML body changes nothing in a string without '&', '<' and '>': a text
\* node without marks whose text has none of them, quotes or not, is emitted as its raw text.
C17_PlainTextUnchanged ==
    (/\ pc = "done"
     /\ node.is = "object" /\ node.type = "text" /\ node.text.is = "string"
     /\ (node.marks.is # "array" \/ node.marks.items = <<>>)
     /\ \A k \in 1..Len(node.text.str) : node.text.str[k] \notin {"&", "<", ">"})
        => rendered = node.text.str

\* fragments with one newline between each two of them
RECURSIVE Glued(_)
Glued(frags) == IF frags = <<>> THEN <<>>
                ELSE IF Len(frags) = 1 THEN frags[1]
                ELSE frags[1] \o <<"\n">> \o Glued(Tail(frags))

\* the fragments of the top-level blocks of doc that are not empty, in document order
Fragments(doc) ==
    SelectSeq([i \in 1..Len(doc.content.items) |-> processNode(doc.content.items[i])],
              LAMBDA f : f # <<>>)

\* C18: generateCleanHTML returns the non-empty fragments of the top-level blocks in document
\* order with exactly one newline between two of them, and the empty string when the root is
\* null, has no content or has a content that is not an array.
C18_NewlineJoined ==
    (pc = "done" /\ html # TypeError) =>
        html = IF json.is = "object" /\ json.content.is = "array" THEN Glued(Fragments(json)) ELSE <<>>

\* three top-level blocks of which the one in the middle renders to nothing
C18_Witness ==
    /\ pc = "done"
    /\ json.is = "object" /\ json.content.is = "array" /\ Len(json.content.items) = 3
    /\ json.content.items[2].is = "object" /\ json.content.items[2].type = "paragraph"
    /\ processNode(json.content.items[2]) = <<>>
    /\ html = <<"a", "\n", "a">>

UL_OPEN == <<"<", "u", "l", ">", "\n">>

UL_CLOSE == <<"\n", "<", "/", "u", "l", ">">>

\* C19: every child of a bulletList is rendered as a list item, so what stands directly inside
\* <ul>...</ul> begins with <li> and ends with </li>, and no <ul> is empty.
C19_OnlyItemsInList ==
    (pc = "done" /\ html # TypeError) =>
        \A i \in 1..Len(html) :
            /\ At(html, i, UL_OPEN) =>
                  /\ At(html, i + Len(UL_OPEN), <<"<", "l", "i", ">">>)
                  /\ ~At(html, i + Len(UL_OPEN) - 1, UL_CLOSE)
            /\ At(html, i, UL_CLOSE) => EndsAt(html, i - 1, <<"<", "/", "l", "i", ">">>)

H2_OPEN == <<"<", "h", "2", ">">>

H2_CLOSE == <<"<", "/", "h", "2", ">">>

H3_OPEN == <<"<", "h", "3", ">">>

H3_CLOSE == <<"<", "/", "h", "3", ">">>

IsElement(h, open, close) ==
    Len(h) >= Len(open) + Len(close) /\ StartsWith(h, open) /\ EndsAt(h, Len(h), close)

\* C20: a heading is rendered as <h3> exactly when attrs.level is the number 3, and as <h2> for
\* every other level and when attrs or attrs.level is missing; no other heading tag is produced.
C20_HeadingTag ==
    (pc = "done" /\ rendered # <<>> /\ rendered # TypeError) =>
        IF node.attrs.is = "object" /\ node.attrs.level = [is |-> "number", num |-> 3]
        THEN IsElement(rendered, H3_OPEN, H3_CLOSE)
        ELSE IsElement(rendered, H2_OPEN, H2_CLOSE)

\* a heading of level 3 rendered as h3
C20_Witness ==
    /\ pc = "done"
    /\ node.attrs = [is |-> "object", level |-> [is |-> "number", num |-> 3]]
    /\ rendered = H3_OPEN \o <<"a">> \o H3_CLOSE

\* what a child of a blockquote contributes: the inline text of a paragraph, the rendering of
\* any other node
QuotePart(child) ==
    IF child.is = "object" /\ child.type = "paragraph" THEN processInline(child.content)
    ELSE processNode(child)

QuoteParts(n) ==
    SelectSeq([i \in 1..Len(n.content.items) |-> QuotePart(n.content.items[i])], LAMBDA x : x # <<>>)

\* parts with one <br> between each two of them
RECURSIVE Broken(_)
Broken(parts) == IF Len(parts) = 1 THEN parts[1]
                 ELSE parts[1] \o <<"<", "b", "r", ">">> \o Broken(Tail(parts))

\* C21: a blockquote whose children give n >= 1 non-empty parts is <blockquote>, the parts in
\* child order with n - 1 <br> between them, </blockquote>.
C21_QuoteParts ==
    (pc = "done" /\ rendered # TypeError /\ QuoteParts(node) # <<>>) =>
        rendered = <<"<", "b", "l", "o", "c", "k", "q", "u", "o", "t", "e", ">">>
                   \o Broken(QuoteParts(node))
                   \o <<"<", "/", "b", "l", "o", "c", "k", "q", "u", "o", "t", "e", ">">>

\* three children of which the one in the middle renders to nothing: two parts, one <br>
C21_Witness ==
    /\ pc = "done"
    /\ Len(node.content.items) = 3
    /\ QuotePart(node.content.items[2]) = <<>>
    /\ Len(QuoteParts(node)) = 2
    /\ rendered = <<"<", "b", "l", "o", "c", "k", "q", "u", "o", "t", "e", ">">>
                  \o <<"a", "<", "b", "r", ">", "b">>
                  \o <<"<", "/", "b", "l", "o", "c", "k", "q", "u", "o", "t", "e", ">">>

\* C29: every result of calculateStats has 0 <= words <= characters, and words, characters and
\* readingTimeMinutes are zero together or not at all.
C29_CountsAgree ==
    pc = "done" =>
        /\ 0 <= stats.words /\ stats.words <= stats.characters
        /\ stats.words = 0 <=> stats.characters = 0
        /\ stats.characters = 0 <=> stats.readingTimeMinutes = 0

\* a text of CJK characters and white space only: as many words as characters
C29_Witness ==
    /\ pc = "done"
    /\ text.is = "string"
    /\ \E i \in 1..Len(text.str) : InCJKRanges(text.str[i])
    /\ \E i \in 1..Len(text.str) : text.str[i] = 32
    /\ stats.words = stats.characters /\ stats.words >= 2
    /\ stats.readingTimeMinutes = 1

\* C30: every call of containsCJK answers whether its argument holds a character of the CJK
\* ranges, whatever the calls before it were, and no call of containsCJK changes the result of a
\* later call of calculateStats.
C30_ContainsCJKStateless ==
    /\ (pc = "contains" /\ text.is = "string") =>
           answer = (\E i \in 1..Len(text.str) : InCJKRanges(text.str[i]))
    /\ pc = "done" => stats = calculateStats(text, 0).result

\* C22: func is invoked only by the timer of the most recent call, once for it, with the this
\* and the arguments of that call, also when the call was made by func itself; and when no timer
\* is left and func is not running, the most recent call has been served (or cancelled).
C22_DebounceServesLastCall ==
    /\ \A k \in 1..Len(invoked) :
           invoked[k].timer # 0 =>
               /\ invoked[k].timer = invoked[k].timeoutId
               /\ invoked[k].fate = "waiting"
               /\ invoked[k].this = invoked[k].recent.this
               /\ invoked[k].args = invoked[k].recent.args
    /\ (pc = "idle" /\ timers = {}) => fate # "waiting"

\* C23: flush() with a call pending invokes func at once, once, with the last this and
\* arguments, and leaves no timer; cancel() with a call pending drops it; flush() and cancel()
\* with no call pending do nothing; a call after either starts a timer of its own.
C23_FlushAndCancel ==
    /\ (op.name = "flush" /\ op.pending) =>
           /\ Len(invoked) = op.count + 1
           /\ invoked[Len(invoked)].timer = 0
           /\ invoked[Len(invoked)].this = recent.this
           /\ invoked[Len(invoked)].args = recent.args
           /\ timers = {}
    /\ (op.name = "cancel" /\ op.pending) =>
           /\ Len(invoked) = op.count
           /\ timers = {} /\ timeoutId = 0 /\ fate = "cancelled"
    /\ (op.name \in {"flush", "cancel"} /\ ~op.pending) =>
           /\ Len(invoked) = op.count
           /\ timers = {} /\ timeoutId = 0
    /\ op.name = "call" => (timers = {timeoutId} /\ timeoutId # 0 /\ Len(invoked) = op.count)

\* the number of failed invocations among the settled ones
Failures == Len(SelectSeq(outcomes, LAMBDA o : ~o.ok))

\* C28: retry invokes operation one at a time and at most attempts times; it resolves with
\* the value of the first success and invokes nothing after it; when all attempts failed it
\* rejects with the error of the last one; onRetry is called once after every failure but the
\* last, with the number of the failed attempt, and no pause follows the last failure.
C28_RetryContract ==
    /\ inFlight <= 1
    /\ Len(outcomes) + inFlight <= attempts
    /\ \A k \in 1..Len(outcomes) : outcomes[k].ok => k = Len(outcomes)
    /\ settled.state = "fulfilled" <=>
           (Len(outcomes) > 0 /\ outcomes[Len(outcomes)].ok)
    /\ settled.state = "fulfilled" =>
           (settled.with = outcomes[Len(outcomes)].with /\ inFlight = 0 /\ pc = "done")
    /\ settled.state = "rejected" <=> Failures = attempts
    /\ settled.state = "rejected" =>
           (settled.with = outcomes[attempts].with /\ inFlight = 0 /\ pc = "done")
    /\ Len(waits) = (IF Failures < attempts THEN Failures ELSE attempts - 1)
    /\ retried = (IF onRetry THEN [k \in 1..Len(waits) |-> k] ELSE <<>>)

\* all attempts of a call with onRetry failed, with different errors
C28_Witness ==
    /\ settled.state = "rejected" /\ onRetry /\ attempts = MaxAttempts
    /\ outcomes[1].with # settled.with

\* C24: the keydown listener of the focus trap is attached only while the modal is open,
\* whatever the order of close(), destroy() and the delayed activation, and the delayed
\* activation never runs against a destroyed modal.
C24_TrapOnlyWhileOpen ==
    /\ ~isOpen => ~trapActive
    /\ modalOp.name = "activate" => (modalOp.focusTrap /\ ~modalOp.threw)

\* the trimmed text of the field, when the last step began, is empty or rejected by validateURL
BadValue == \/ trim(modalOp.value) = <<>>
            \/ ~validateURL(JsString(trim(modalOp.value))).valid

\* C26: onConfirm is called at most once per opening, only while the modal is open and only
\* with the url of a valid validateURL result; a confirm (button or Enter) with an empty or
\* rejected URL leaves the modal as open as it was, shows an error and calls nothing; cancel,
\* Escape and a click on the overlay close the modal and call nothing.
C26_ConfirmOnlyValid ==
    /\ \A k \in 1..Len(confirmed) :
          /\ confirmed[k].isOpen
          /\ \E v \in ModalValues : /\ validateURL(JsString(v)).valid
                                    /\ validateURL(JsString(v)).url = confirmed[k].url
          /\ \A j \in 1..Len(confirmed) : confirmed[j].given = confirmed[k].given => j = k
    /\ (modalOp.name \in {"confirm", "enter"} /\ BadValue) =>
          (isOpen = modalOp.isOpen /\ linkError # "" /\ Len(confirmed) = modalOp.count)
    /\ modalOp.name \in {"cancel", "escape", "overlay"} =>
          (~isOpen /\ Len(confirmed) = modalOp.count)

\* Enter in the field of the open modal gave a valid URL to onConfirm and closed the modal
C26_Witness ==
    /\ modalOp.name = "enter" /\ modalOp.isOpen /\ ~isOpen
    /\ Len(confirmed) = modalOp.count + 1

\* C27: isOpen, the is-visible class of the overlay and the scroll lock of the page agree in
\* every state; open() on an open modal and close() on a closed modal change nothing; after
\* destroy() the scroll is not left locked.
C27_OpenVisibleLocked ==
    /\ isOpen = visible /\ visible = scrollLocked
    /\ (modalOp.name = "open" /\ modalOp.isOpen) => modalFields = modalOp.fields
    /\ (modalOp.name = "close" /\ ~modalOp.isOpen) => modalFields = modalOp.fields
    /\ ~focusTrap => ~scrollLocked

\* C25: however often initialize() failed and was started again by Retry, a click on an
\* enabled button of the toolbar calls handleToolbarAction exactly once and runs the editor
\* command at most once, and only the controller the app holds listens to the toolbar.
C25_OneClickOneAction ==
    /\ (clicked.at \notin {"none", "start"} /\ ~clicked.disabled) =>
          (Len(handled) = 1 /\ Len(commands) <= 1)
    /\ listeners \subseteq {toolbar}


====
